---------------------------- MODULE Spec2Model ----------------------------
(***************************************************************************)
(* OpsIntel dashboard: the aggregation handler (pages/api/dashboard.ts,    *)
(* src/unnamed/part_002), the three source fetchers (fetchFred.ts,         *)
(* fetchEia.ts = part_006, fetchWeather.ts = part_005) and the insight     *)
(* generator (fetchInsight.ts), with their TTL caches.                     *)
(*                                                                         *)
(* Time is counted in minutes (the code counts milliseconds; every TTL is  *)
(* a whole number of minutes).  An ISO timestamp string is the record      *)
(* [iso |-> t]; JavaScript's null is the record NULL.  Fractional numbers  *)
(* are fixed-point integers: a production index in hundredths, an energy   *)
(* price in thousandths of a cent, a temperature in whole degrees F.       *)
(***************************************************************************)
EXTENDS Integers, Sequences, FiniteSets, TLC

VARIABLES
    now,          \* Date.now(), in minutes
    ticks,        \* how many times the clock has moved (bounded by MaxTicks)
    env,          \* process.env: the set of credentials that are present
    sourceCache,  \* the `cache` of each fetcher module (SimpleCache), by source
    insightLib,   \* the `cache` of fetchInsight.ts (InsightCache)
    dataCache,    \* DashboardCache.dataCache
    insightCache, \* DashboardCache.insightCache
    pc,           \* per request slot: where the handler is
    req,          \* per request slot: the handler's locals
    started,      \* how many requests have been started (bounded by MaxReqs)
    aiCalls,      \* how many times the text-generation API has been called
    log,          \* the finished requests, oldest first (history)
    probe         \* state of the component harnesses (SpecCache, SpecHash)

vars == <<now, ticks, env, sourceCache, insightLib, dataCache, insightCache,
          pc, req, started, aiCalls, log, probe>>

-----------------------------------------------------------------------------
(* Bounds of the model *)

MaxTicks == 2
MaxReqs == 2
MaxCacheOps == 3
MaxHashCalls == 2
MaxLongReqs == 3

-----------------------------------------------------------------------------
(* Values *)

NULL == [null |-> TRUE]

ToISOString(t) == [iso |-> t]

GetTime(s) == s.iso

Sources == {"fred", "eia", "weather"}

SourceSeq == <<"fred", "eia", "weather">>

Credentials == {"FRED_API_KEY", "EIA_API_KEY", "WEATHER_API_KEY", "CLAUDE_API_KEY"}

ApiKeyOf(source) ==
    CASE source = "fred" -> "FRED_API_KEY"
      [] source = "eia" -> "EIA_API_KEY"
      [] source = "weather" -> "WEATHER_API_KEY"

\* Math.round(n / d) for d > 0: the nearest integer, halves towards +infinity
MathRound(n, d) == (2 * n + d) \div (2 * d)

Abs(n) == IF n < 0 THEN -n ELSE n

NoPct == -1

\* a production trend string: `${sign} ${pct.toFixed(1)}% MoM`, or sign + fixed text
TrendText(sign, label) == [sign |-> sign, pct10 |-> NoPct, label |-> label]

TrendPct(sign, pct10) == [sign |-> sign, pct10 |-> pct10, label |-> "% MoM"]

-----------------------------------------------------------------------------
(* JavaScript's Map: a sequence of [k, v] in insertion order *)

MapHas(m, k) == \E i \in DOMAIN m : m[i].k = k

MapIndex(m, k) == CHOOSE i \in DOMAIN m : m[i].k = k

MapGet(m, k) == IF MapHas(m, k) THEN m[MapIndex(m, k)].v ELSE NULL

\* set keeps the position of a key that is already present
MapSet(m, k, v) ==
    IF MapHas(m, k)
    THEN [m EXCEPT ![MapIndex(m, k)] = [k |-> k, v |-> v]]
    ELSE Append(m, [k |-> k, v |-> v])

MapDelete(m, k) == SelectSeq(m, LAMBDA e : e.k # k)

MapValues(m) == [i \in DOMAIN m |-> m[i].v]

EmptyMap == <<>>

-----------------------------------------------------------------------------
(* SimpleCache: fetchFred.ts (the same class is repeated in fetchEia.ts    *)
(* and fetchWeather.ts)                                                    *)

\* a set that keeps the expiry of an entry the key already has
SimpleCacheSetKeepExpiry(cache, key, data, ttlMs, t) ==
    MapSet(cache, key,
           [data |-> data,
            expires |-> IF MapHas(cache, key) THEN MapGet(cache, key).expires
                        ELSE t + ttlMs])

SimpleCacheSet(cache, key, data, ttlMs, t) ==
    MapSet(cache, key, [data |-> data, expires |-> t + ttlMs])

\* an expiry test that counts the instant of expiry as expired
SimpleCacheExpiredAtExpiry(item, t) == t >= item.expires

SimpleCacheExpired(item, t) == t > item.expires

\* the value get returns
SimpleCacheGet(cache, key, t) ==
    LET item == MapGet(cache, key) IN
    IF item = NULL THEN NULL
    ELSE IF SimpleCacheExpired(item, t) THEN NULL
    ELSE item.data

\* a get that reports an expired entry absent and leaves it in the map
SimpleCacheAfterGetKeep(cache, key, t) == cache

\* the map get leaves behind
SimpleCacheAfterGet(cache, key, t) ==
    LET item == MapGet(cache, key) IN
    IF item = NULL THEN cache
    ELSE IF SimpleCacheExpired(item, t) THEN MapDelete(cache, key)
    ELSE cache

FRED_CACHE_TTL == 60
EIA_CACHE_TTL == 10
WEATHER_CACHE_TTL == 15

\* fetchers that all keep their results for an hour
CACHE_TTLHour(source) == FRED_CACHE_TTL

CACHE_TTL(source) ==
    CASE source = "fred" -> FRED_CACHE_TTL
      [] source = "eia" -> EIA_CACHE_TTL
      [] source = "weather" -> WEATHER_CACHE_TTL

CACHE_KEY(source) ==
    CASE source = "fred" -> "fred_production_index"
      [] source = "eia" -> "eia_texas_electricity_price"
      [] source = "weather" -> "el_paso_weather"

-----------------------------------------------------------------------------
(* InsightCache: fetchInsight.ts *)

INSIGHT_CACHE_TTL == 30

InsightCacheSet(cache, key, data, t) ==
    MapSet(cache, key, [data |-> data, expires |-> t + INSIGHT_CACHE_TTL])

InsightCacheExpired(item, t) == t > item.expires

InsightCacheGet(cache, key, t) ==
    LET item == MapGet(cache, key) IN
    IF item = NULL THEN NULL
    ELSE IF InsightCacheExpired(item, t) THEN NULL
    ELSE item.data

InsightCacheAfterGet(cache, key, t) ==
    LET item == MapGet(cache, key) IN
    IF item = NULL THEN cache
    ELSE IF InsightCacheExpired(item, t) THEN MapDelete(cache, key)
    ELSE cache

-----------------------------------------------------------------------------
(* DashboardCache: pages/api/dashboard.ts *)

FRED_TTL == 60
EIA_TTL == 10
WEATHER_TTL == 15
INSIGHT_TTL == 30

SetData(cache, key, data, ttl, t) ==
    MapSet(cache, key,
           [data |-> data, lastFetched |-> ToISOString(t), expires |-> t + ttl])

DataExpired(item, t) == t > item.expires

\* the entry getData returns
GetData(cache, key, t) ==
    LET item == MapGet(cache, key) IN
    IF item = NULL \/ DataExpired(item, t) THEN NULL ELSE item

\* a getData that renews the lease of the entry it returns: the entry lives
\* for its ttl from the last read
AfterGetDataRenew(cache, key, t) ==
    LET item == MapGet(cache, key) IN
    IF item = NULL \/ DataExpired(item, t) THEN MapDelete(cache, key)
    ELSE MapSet(cache, key,
                [item EXCEPT !.expires = t + (item.expires - GetTime(item.lastFetched))])

\* Map.delete of a key that is absent changes nothing
AfterGetData(cache, key, t) ==
    LET item == MapGet(cache, key) IN
    IF item = NULL \/ DataExpired(item, t) THEN MapDelete(cache, key) ELSE cache

SetInsight(cache, dataHash, insight, t) ==
    MapSet(cache, dataHash,
           [insight |-> insight, dataHash |-> dataHash,
            lastInsightRun |-> ToISOString(t), expires |-> t + INSIGHT_TTL])

InsightExpired(item, t) == t > item.expires

GetInsight(cache, dataHash, t) ==
    LET item == MapGet(cache, dataHash) IN
    IF item = NULL \/ InsightExpired(item, t) THEN NULL ELSE item

AfterGetInsight(cache, dataHash, t) ==
    LET item == MapGet(cache, dataHash) IN
    IF item = NULL \/ InsightExpired(item, t) THEN MapDelete(cache, dataHash) ELSE cache

\* the first entry, in iteration order, among those with the largest lastInsightRun
GetLatestInsight(cache) ==
    LET vals == MapValues(cache)
        better(i) == /\ GetTime(vals[i].lastInsightRun) > 0
                     /\ \A j \in DOMAIN vals :
                           \/ GetTime(vals[j].lastInsightRun) < GetTime(vals[i].lastInsightRun)
                           \/ (GetTime(vals[j].lastInsightRun) = GetTime(vals[i].lastInsightRun)
                               /\ j >= i)
    IN IF \E i \in DOMAIN vals : better(i)
       THEN vals[CHOOSE i \in DOMAIN vals : better(i)]
       ELSE NULL

GetTTL(source) ==
    CASE source = "fred" -> FRED_TTL
      [] source = "eia" -> EIA_TTL
      [] source = "weather" -> WEATHER_TTL
      [] OTHER -> EIA_TTL

-----------------------------------------------------------------------------
(* The data fingerprint: generateDataHash of dashboard.ts (SHA-1) and of   *)
(* fetchInsight.ts (MD5).  A digest is [alg, of]: the algorithm and the    *)
(* string it was computed from (digests of different strings differ).      *)

\* insertion order of the keys of combinedData / normalizedData
ObjectKeys == <<"production", "energy", "weather">>

\* Object.keys(combinedData).sort()
SortedKeys == <<"energy", "production", "weather">>

\* JSON.stringify(value, propertyList): with an array as replacer, ONLY the
\* properties named in it are written, in its order, in the object and in
\* every object nested in it.  depth = how many object levels value has.
\* The string is the sequence of <<key, text of the value>>.
RECURSIVE JSONStringify(_, _, _)
JSONStringify(value, propertyList, depth) ==
    IF depth = 0
    THEN value
    ELSE LET keys == SelectSeq(propertyList, LAMBDA k : k \in DOMAIN value)
         IN [i \in 1..Len(keys) |->
                <<keys[i], JSONStringify(value[keys[i]], propertyList, depth - 1)>>]

\* the rounded projection both hash functions build
\*   index  Math.round(index * 10) / 10        (in tenths)
\*   price  Math.round(centsPerKwh * 100) / 100 (in hundredths)
\*   temp   Math.round(temp / 5) * 5
NormalizedData(production, energy, weather) ==
    [production |-> [index |-> MathRound(production.index, 10),
                     trend |-> production.trend],
     energy |-> [centsPerKwh |-> MathRound(energy.centsPerKwh, 10),
                 trend |-> energy.trend],
     weather |-> [temp |-> MathRound(weather.temp, 5) * 5,
                  alert |-> weather.alert]]

CreateHash(alg, dataString) == [alg |-> alg, of |-> dataString]

\* a hash that writes every field of the unrounded data (no replacer, no rounding)
GenerateDataHashRaw(production, energy, weather) ==
    CreateHash("sha1",
        <<<<"production", <<production.index, production.trend>>>>,
          <<"energy", <<energy.centsPerKwh, energy.trend>>>>,
          <<"weather", <<weather.temp, weather.alert>>>>>>)

\* dashboard.ts generateDataHash
GenerateDataHash(production, energy, weather) ==
    CreateHash("sha1",
        JSONStringify(NormalizedData(production, energy, weather), SortedKeys, 2))

\* fetchInsight.ts generateDataHash
InsightGenerateDataHash(data) ==
    CreateHash("md5",
        JSONStringify(NormalizedData(data.production, data.energy, data.weather),
                      SortedKeys, 2))

-----------------------------------------------------------------------------
(* What an upstream HTTP call can bring back.  A reply has                 *)
(*   net    "ok", or "error" when fetch itself rejects (network, timeout)  *)
(*   ok     response.ok (a 2xx status)                                     *)
(*   json   response.json() parses                                         *)
(* and the fields of the body the fetcher reads.  A number read from the   *)
(* body is [kind, n]: kind "num" with the value n, or what stands there    *)
(* instead ("dot" for FRED's ".", "nan", "null", "none" when absent).      *)

Num(n) == [kind |-> "num", n |-> n]

NotNum(kind) == [kind |-> kind, n |-> 0]

NetworkError == [net |-> "error", ok |-> FALSE, json |-> FALSE]

HttpError == [net |-> "ok", ok |-> FALSE, json |-> FALSE]

Malformed == [net |-> "ok", ok |-> TRUE, json |-> FALSE]

\* Array.prototype.sort with a comparator (a stable sort): before(a, b) means
\* the comparator puts a strictly before b; elements it ties keep their order
SortBy(seq, before(_, _)) ==
    LET rank(i) == Cardinality({j \in DOMAIN seq :
                                  \/ before(seq[j], seq[i])
                                  \/ (~before(seq[i], seq[j]) /\ j <= i)})
    IN [p \in DOMAIN seq |-> seq[CHOOSE i \in DOMAIN seq : rank(i) = p]]

\* the outcome of the code of a fetcher after its await: whether it threw,
\* else the value it returns and whether that value is live (computed from
\* the body, and so stored in the fetcher's cache)
Live(data) == [threw |-> FALSE, live |-> TRUE, data |-> data]

\* a catch block that rethrows: the error leaves the fetcher (its promise
\* rejects)
CaughtRethrown(fallback) == [threw |-> TRUE, live |-> FALSE, data |-> NULL]

\* an error thrown inside the fetcher's try block: its catch returns the fallback
Caught(fallback) == [threw |-> FALSE, live |-> FALSE, data |-> fallback]

(* fetchFred.ts *)

FredFallback == [index |-> 10240, trend |-> TrendText("→", "Data unavailable")]

FredBody(observations) ==
    [net |-> "ok", ok |-> TRUE, json |-> TRUE, hasObservations |-> TRUE,
     observations |-> observations]

FredNoObservations ==
    [net |-> "ok", ok |-> TRUE, json |-> TRUE, hasObservations |-> FALSE,
     observations |-> <<>>]

\* a trend whose glyph follows the percentage as it is printed: a change
\* that prints as 0.0% gets the right-arrow
FredTrendRounded(validObservations, latestValue) ==
    IF Len(validObservations) >= 2
    THEN LET previous == validObservations[2].value IN
         IF previous.kind = "num" /\ previous.n # 0
         THEN LET diff == latestValue - previous.n
                  pct10 == MathRound(Abs(diff) * 1000, Abs(previous.n))
                  up == (diff > 0 /\ previous.n > 0) \/ (diff < 0 /\ previous.n < 0)
                  sign == IF pct10 = 0 THEN "→" ELSE IF up THEN "↑" ELSE "↓"
              IN TrendPct(sign, pct10)
         ELSE TrendText("→", "No data")
    ELSE TrendText("→", "No data")

FredTrend(validObservations, latestValue) ==
    IF Len(validObservations) >= 2
    THEN LET previous == validObservations[2].value IN
         IF previous.kind = "num" /\ previous.n # 0
         THEN LET diff == latestValue - previous.n
                  \* sign of percentChange = ((latest - previous) / previous) * 100
                  up == (diff > 0 /\ previous.n > 0) \/ (diff < 0 /\ previous.n < 0)
                  sign == IF diff = 0 THEN "→" ELSE IF up THEN "↑" ELSE "↓"
              IN TrendPct(sign, MathRound(Abs(diff) * 1000, Abs(previous.n)))
         ELSE TrendText("→", "No data")
    ELSE TrendText("→", "No data")

\* getProductionIndex from `await fetch` on
FredAfterFetch(reply) ==
    IF reply.net # "ok" \/ ~reply.ok \/ ~reply.json THEN Caught(FredFallback)
    ELSE IF ~reply.hasObservations \/ Len(reply.observations) = 0
    THEN Caught(FredFallback)
    ELSE LET validObservations ==
                 SortBy(SelectSeq(reply.observations, LAMBDA obs : obs.value.kind # "dot"),
                        LAMBDA a, b : a.date > b.date)
         IN IF Len(validObservations) < 1 THEN Caught(FredFallback)
            ELSE IF validObservations[1].value.kind # "num" THEN Caught(FredFallback)
            ELSE LET latestValue == validObservations[1].value.n IN
                 Live([index |-> MathRound(latestValue, 10) * 10,
                       trend |-> FredTrend(validObservations, latestValue)])

(* fetchEia.ts (part_006) *)

EiaFallback == [centsPerKwh |-> 12500, trend |-> "stable"]

EiaBody(priceData) ==
    [net |-> "ok", ok |-> TRUE, json |-> TRUE, hasData |-> TRUE,
     series |-> <<[hasData |-> TRUE, data |-> priceData]>>]

EiaNoData ==
    [net |-> "ok", ok |-> TRUE, json |-> TRUE, hasData |-> FALSE, series |-> <<>>]

\* a trend that counts a change of exactly 2% as significant
EiaTrendInclusive(sortedData, latestPrice) ==
    IF Len(sortedData) >= 2
    THEN LET previousPrice == sortedData[2].value.n IN
         IF previousPrice > 0
         THEN IF (latestPrice - previousPrice) * 100 >= 2 * previousPrice THEN "up"
              ELSE IF (latestPrice - previousPrice) * 100 <= (-2) * previousPrice THEN "down"
              ELSE "stable"
         ELSE "stable"
    ELSE "stable"

EiaTrend(sortedData, latestPrice) ==
    IF Len(sortedData) >= 2
    THEN LET previousPrice == sortedData[2].value.n IN
         IF previousPrice > 0
         THEN \* percentChange = ((latest - previous) / previous) * 100
              IF (latestPrice - previousPrice) * 100 > 2 * previousPrice THEN "up"
              ELSE IF (latestPrice - previousPrice) * 100 < (-2) * previousPrice THEN "down"
              ELSE "stable"
         ELSE "stable"
    ELSE "stable"

\* getEnergyPrice from `await fetch` on
EiaAfterFetch(reply) ==
    IF reply.net # "ok" \/ ~reply.ok \/ ~reply.json THEN Caught(EiaFallback)
    ELSE IF ~reply.hasData \/ Len(reply.series) = 0 THEN Caught(EiaFallback)
    ELSE IF ~reply.series[1].hasData \/ Len(reply.series[1].data) = 0
    THEN Caught(EiaFallback)
    ELSE LET sortedData ==
                 SortBy(SelectSeq(reply.series[1].data,
                                  LAMBDA point : point.value.kind = "num"),
                        LAMBDA a, b : a.period > b.period)
         IN IF Len(sortedData) = 0 THEN Caught(EiaFallback)
            ELSE LET latestPrice == sortedData[1].value.n IN
                 IF latestPrice <= 0 THEN Caught(EiaFallback)
                 ELSE Live([centsPerKwh |-> MathRound(latestPrice, 10) * 10,
                            trend |-> EiaTrend(sortedData, latestPrice)])

(* fetchWeather.ts (part_005) *)

WeatherFallback == [temp |-> 75, alert |-> "Weather data unavailable"]

\* temp10: main.temp in tenths of a degree; conditions: the `weather` array;
\* alerts: the `alerts` array
WeatherBody(temp10, conditions, alerts) ==
    [net |-> "ok", ok |-> TRUE, json |-> TRUE, temp |-> temp10,
     weather |-> conditions, alerts |-> alerts]

severeWeatherIds ==
    {200, 201, 202, 210, 211, 212, 221, 230, 231, 232,
     502, 503, 504, 511, 522, 531,
     602, 622,
     711, 721, 731, 741, 751, 761, 762, 771, 781}

WeatherAlert(reply, temperature) ==
    LET fromConditions ==
            IF Len(reply.weather) > 0
            THEN LET mainWeather == reply.weather[1]
                     severe == IF mainWeather.id \in severeWeatherIds
                               THEN mainWeather.main \o ": " \o mainWeather.description
                               ELSE "none"
                 IN IF temperature >= 100 THEN "Extreme heat warning"
                    ELSE IF temperature <= 32 THEN "Freezing temperature alert"
                    ELSE severe
            ELSE "none"
    IN IF Len(reply.alerts) > 0
       THEN LET activeAlert == reply.alerts[1] IN
            IF activeAlert.event # "" THEN activeAlert.event
            ELSE IF activeAlert.description # "" THEN activeAlert.description
            ELSE "Weather alert active"
       ELSE fromConditions

\* getLocalWeather from `await fetch` on; `!data.main?.temp` is true of a
\* missing temperature, of NaN and of 0
WeatherAfterFetch(reply) ==
    IF reply.net # "ok" \/ ~reply.ok \/ ~reply.json THEN Caught(WeatherFallback)
    ELSE IF reply.temp.kind # "num" \/ reply.temp.n = 0 THEN Caught(WeatherFallback)
    ELSE LET temperature == MathRound(reply.temp.n, 10) IN
         Live([temp |-> temperature, alert |-> WeatherAlert(reply, temperature)])

AfterFetch(source, reply) ==
    CASE source = "fred" -> FredAfterFetch(reply)
      [] source = "eia" -> EiaAfterFetch(reply)
      [] source = "weather" -> WeatherAfterFetch(reply)

-----------------------------------------------------------------------------
(* fetchInsight.ts: analyzeInsight *)

Insight(summary, recommendation) ==
    [summary |-> summary, recommendation |-> recommendation]

\* a reply of the text-generation API; parsed is what parseClaudeResponse
\* makes of content[0].text: an insight, or NULL (no JSON in the text, or
\* summary / recommendation missing or not strings)
AiBody(parsed) == [net |-> "ok", ok |-> TRUE, json |-> TRUE, parsed |-> parsed]

ValidateInputData(data) ==
    /\ {"production", "energy", "weather"} \subseteq DOMAIN data
    /\ {"index", "trend"} \subseteq DOMAIN data.production
    /\ {"centsPerKwh", "trend"} \subseteq DOMAIN data.energy
    /\ data.energy.trend \in {"up", "down", "stable"}
    /\ {"temp", "alert"} \subseteq DOMAIN data.weather

InvalidDataInsight ==
    Insight("Invalid data provided for analysis.",
            "Please ensure all required data fields are present and valid.")

\* a rule table that looks at the energy trend before the temperature
RuleBasedInsightEnergyFirst(data) ==
    IF data.energy.trend = "up"
    THEN Insight("Energy costs trending upward",
                 "Optimize energy usage and consider off-peak scheduling")
    ELSE IF data.weather.temp >= 100
    THEN Insight("Extreme heat conditions detected",
                 "Consider shifting operations to cooler hours to reduce energy costs")
    ELSE Insight("Data analysis temporarily unavailable",
                 "Monitor key metrics and adjust operations as needed")

\* the rule table in the catch block of analyzeInsight
RuleBasedInsight(data) ==
    IF data.weather.temp >= 100
    THEN Insight("Extreme heat conditions detected",
                 "Consider shifting operations to cooler hours to reduce energy costs")
    ELSE IF data.energy.trend = "up"
    THEN Insight("Energy costs trending upward",
                 "Optimize energy usage and consider off-peak scheduling")
    ELSE IF data.weather.alert # "none"
    THEN Insight("Weather alert active",
                 "Monitor weather conditions and prepare contingency plans")
    ELSE IF data.production.trend.sign = "↓"
    THEN Insight("Production index declining",
                 "Review production processes and identify improvement opportunities")
    ELSE IF data.production.trend.sign = "↑"
    THEN Insight("Production performing well",
                 "Maintain current efficiency while monitoring energy costs")
    ELSE Insight("Data analysis temporarily unavailable",
                 "Monitor key metrics and adjust operations as needed")

\* a catch block that lets the error go on to the caller
AnalyzeCatchRethrow(cache, data) == [error |-> "Error calling Claude API"]

\* the catch block of analyzeInsight: the first entry of the cache map,
\* whatever its key and its expiry, else the rule table
AnalyzeCatch(cache, data) ==
    IF Len(cache) > 0 /\ MapValues(cache)[1].data # NULL
    THEN MapValues(cache)[1].data
    ELSE RuleBasedInsight(data)

\* whether the reply makes analyzeInsight return the parsed insight
AiSucceeds(reply) ==
    reply.net = "ok" /\ reply.ok /\ reply.json /\ reply.parsed # NULL

\* analyzeInsight up to its await: what it returns at once (done), or that it
\* waits for the API (done = FALSE); cache is the InsightCache it leaves
AnalyzeInsightSync(cache, data, environment, t) ==
    IF ~ValidateInputData(data)
    THEN [done |-> TRUE, insight |-> InvalidDataInsight, cache |-> cache]
    ELSE LET dataHash == InsightGenerateDataHash(data)
             cachedInsight == InsightCacheGet(cache, dataHash, t)
             cache1 == InsightCacheAfterGet(cache, dataHash, t)
         IN IF cachedInsight # NULL
            THEN [done |-> TRUE, insight |-> cachedInsight, cache |-> cache1]
            ELSE IF "CLAUDE_API_KEY" \notin environment
            THEN [done |-> TRUE, insight |-> AnalyzeCatch(cache1, data), cache |-> cache1]
            ELSE [done |-> FALSE, insight |-> NULL, cache |-> cache1]

\* analyzeInsight from `await fetch` on
AnalyzeInsightAfterFetch(cache, data, reply, t) ==
    IF AiSucceeds(reply)
    THEN [insight |-> reply.parsed,
          cache |-> InsightCacheSet(cache, InsightGenerateDataHash(data), reply.parsed, t)]
    ELSE [insight |-> AnalyzeCatch(cache, data), cache |-> cache]

-----------------------------------------------------------------------------
(* dashboard.ts: fetchWithCache, fetchAllData *)

Settled(data, lastFetched) == [data |-> data, lastFetched |-> lastFetched]

\* the fallback literals of the outer catch block of the handler (lines 383-385)
HandlerFallbackStale(source) ==
    CASE source = "fred" -> [index |-> 10240, trend |-> TrendText("→", "Data unavailable")]
      [] source = "eia" -> [centsPerKwh |-> 12500, trend |-> "stable"]
      [] source = "weather" -> [temp |-> 75, alert |-> "Data unavailable"]

\* lines 268-270: the fallback fetchAllData hands to fetchWithCache
HandlerFallback(source) ==
    CASE source = "fred" -> [index |-> 10240, trend |-> TrendText("→", "Data unavailable")]
      [] source = "eia" -> [centsPerKwh |-> 12500, trend |-> "stable"]
      [] source = "weather" -> [temp |-> 75, alert |-> "Weather data unavailable"]

\* a cache hit that stamps the result with the time of the request
FetchWithCacheHitNow(cached, t) == Settled(cached.data, ToISOString(t))

\* lines 228-233: the entry found in the cache
FetchWithCacheHit(cached, t) == Settled(cached.data, cached.lastFetched)

\* lines 237-245: the fetcher returned data
FetchWithCacheResolve(cache, source, data, t) ==
    LET cache1 == SetData(cache, source, data, GetTTL(source), t)
        cachedEntry == GetData(cache1, source, t)
    IN [dataCache |-> AfterGetData(cache1, source, t),
        settled |-> Settled(data, IF cachedEntry # NULL THEN cachedEntry.lastFetched
                                  ELSE ToISOString(t))]

\* lines 246-254: the fetcher threw
FetchWithCacheCatch(fallback, t) == Settled(fallback, ToISOString(t))

\* fetchWithCache(source, fetcher, fallback) up to the fetcher's await.
\* st = [dataCache, sourceCache, settled, via]; settled[source] stays NULL
\* while the fetcher waits for its upstream.
FetchWithCacheSync(st, source, environment, t) ==
    LET cached == GetData(st.dataCache, source, t)
        dataCache1 == AfterGetData(st.dataCache, source, t)
        lib == st.sourceCache[source]
        cachedData == SimpleCacheGet(lib, CACHE_KEY(source), t)
        lib1 == SimpleCacheAfterGet(lib, CACHE_KEY(source), t)
    IN IF cached # NULL
       THEN [st EXCEPT !.dataCache = dataCache1,
                       !.settled[source] = FetchWithCacheHit(cached, t),
                       !.via[source] = "dataCache"]
       ELSE IF cachedData # NULL
       THEN LET res == FetchWithCacheResolve(dataCache1, source, cachedData, t) IN
            [st EXCEPT !.dataCache = res.dataCache,
                       !.sourceCache[source] = lib1,
                       !.settled[source] = res.settled,
                       !.via[source] = "libCache"]
       ELSE IF ApiKeyOf(source) \notin environment
       THEN [st EXCEPT !.dataCache = dataCache1,
                       !.sourceCache[source] = lib1,
                       !.settled[source] = FetchWithCacheCatch(HandlerFallback(source), t),
                       !.via[source] = "threw"]
       ELSE [st EXCEPT !.dataCache = dataCache1,
                       !.sourceCache[source] = lib1,
                       !.via[source] = "await"]

\* the three fetchWithCache calls of fetchAllData, in the order they are made
RECURSIVE FetchAllSync(_, _, _, _)
FetchAllSync(st, i, environment, t) ==
    IF i > Len(SourceSeq) THEN st
    ELSE FetchAllSync(FetchWithCacheSync(st, SourceSeq[i], environment, t),
                      i + 1, environment, t)

SetMax(S) == CHOOSE x \in S : \A y \in S : y <= x

\* a join that gives up on every source as soon as one of them fell back
FetchAllDataFailFast(settled, t) ==
    LET failed == \E s \in Sources : settled[s].data = HandlerFallback(s)
        timestamps == {GetTime(settled[s].lastFetched) : s \in Sources}
    IN [production |-> IF failed THEN HandlerFallback("fred") ELSE settled["fred"].data,
        energy |-> IF failed THEN HandlerFallback("eia") ELSE settled["eia"].data,
        weather |-> IF failed THEN HandlerFallback("weather") ELSE settled["weather"].data,
        lastFetched |-> ToISOString(SetMax(timestamps))]

\* a join that stamps the snapshot with the time of the join
FetchAllDataStamped(settled, t) ==
    [production |-> settled["fred"].data,
     energy |-> settled["eia"].data,
     weather |-> settled["weather"].data,
     lastFetched |-> ToISOString(t)]

\* lines 273-295: every result is fulfilled (fetchWithCache never rejects)
FetchAllDataResult(settled, t) ==
    LET timestamps == {GetTime(settled[s].lastFetched) : s \in Sources} IN
    [production |-> settled["fred"].data,
     energy |-> settled["eia"].data,
     weather |-> settled["weather"].data,
     lastFetched |-> IF timestamps # {} THEN ToISOString(SetMax(timestamps))
                     ELSE ToISOString(t)]

-----------------------------------------------------------------------------
(* dashboard.ts: handler.  One request per slot; pc says where it is:      *)
(*   "idle"      no request in the slot                                    *)
(*   "fetching"  inside `await fetchAllData()`                             *)
(*   "awaitAI"   inside `await analyzeInsight(...)`, waiting for the API   *)
(* A request that responds is appended to log and its slot is idle again.  *)

Slots == {1, 2}

\* the requests of Spec come one after the other
SeqSlots == {1}

IdleReq ==
    [isManualRefresh |-> FALSE,
     startedAt |-> 0,
     respondedBefore |-> 0,                  \* responses sent before it arrived
     settled |-> [s \in Sources |-> NULL],   \* the results of fetchWithCache
     via |-> [s \in Sources |-> "none"],     \* how each result came about
     returned |-> [s \in Sources |-> NULL],  \* what the fetcher returned after its await
     live |-> [s \in Sources |-> FALSE],     \* ... and whether it came from the body
     fetched |-> NULL,                       \* the result of fetchAllData
     currentDataHash |-> NULL,
     lookupAt |-> 0,                         \* when cache.getInsight was called
     cachedInsight |-> NULL,                 \* what it returned
     analyzed |-> FALSE,                     \* analyzeInsight was called
     aiCalled |-> FALSE,                     \* the text-generation API was called
     aiOk |-> FALSE,                         \* ... and its answer was used
     caught |-> FALSE,                       \* the outer catch block answered
     response |-> NULL]

AllSettled(r) == \A s \in Sources : req[r].settled[s] # NULL

\* a continuation that is ready to run: the rest of the handler once
\* Promise.allSettled has all three results.  It runs before any timer, any
\* I/O callback and any other request (microtasks first).
MicrotaskPending == \E r \in Slots : pc[r] = "fetching" /\ AllSettled(r)

\* a response that answers 500 with an error body when a source fell back
HandlerResponseStrict(fetched, insight, lastInsightRun) ==
    IF \E s \in Sources :
          HandlerFallback(s) \in {fetched.production, fetched.energy, fetched.weather}
    THEN [status |-> 500, body |-> [error |-> "Internal server error"]]
    ELSE [status |-> 200,
          body |-> [data |-> [production |-> fetched.production,
                              energy |-> fetched.energy,
                              weather |-> fetched.weather,
                              insight |-> insight],
                    lastFetched |-> fetched.lastFetched,
                    lastInsightRun |-> lastInsightRun]]

\* lines 361-375
HandlerResponse(fetched, insight, lastInsightRun) ==
    [status |-> 200,
     body |-> [data |-> [production |-> fetched.production,
                         energy |-> fetched.energy,
                         weather |-> fetched.weather,
                         insight |-> insight],
               lastFetched |-> fetched.lastFetched,
               lastInsightRun |-> lastInsightRun]]

\* dashboard.ts lines 402-432
GenerateFallbackInsight(production, energy, weather) ==
    IF weather.temp >= 100
    THEN Insight("Extreme heat conditions detected",
                 "Consider shifting operations to cooler hours to reduce energy costs")
    ELSE IF energy.trend = "up"
    THEN Insight("Energy costs trending upward",
                 "Optimize energy usage and consider off-peak scheduling")
    ELSE IF weather.alert # "none" /\ weather.alert # "Weather data unavailable"
    THEN Insight("Weather alert active",
                 "Monitor weather conditions and prepare contingency plans")
    ELSE IF production.trend.sign = "↓"
    THEN Insight("Production index declining",
                 "Review production processes and identify improvement opportunities")
    ELSE IF production.trend.sign = "↑"
    THEN Insight("Production performing well",
                 "Maintain current efficiency while monitoring energy costs")
    ELSE Insight("Data analysis temporarily unavailable",
                 "Monitor key metrics and adjust operations as needed")

\* a handler that regenerates only when no insight is cached
NeedsInsightUpdateCacheOnly(isManualRefresh, cachedInsight) == cachedInsight = NULL

\* line 329
NeedsInsightUpdate(isManualRefresh, cachedInsight) ==
    isManualRefresh \/ cachedInsight = NULL

\* an outer catch block that answers with an error status
HandlerCatchError(t) == [status |-> 500, body |-> [error |-> "Internal server error"]]

\* lines 377-396: the outer catch block of the handler
HandlerCatch(t) ==
    [status |-> 200,
     body |-> [data |-> [production |-> [index |-> 10240,
                                         trend |-> TrendText("→", "Data unavailable")],
                         energy |-> [centsPerKwh |-> 12500, trend |-> "stable"],
                         weather |-> [temp |-> 75, alert |-> "Data unavailable"],
                         insight |-> Insight("System temporarily unavailable",
                                             "Please try refreshing in a few minutes")],
               lastFetched |-> ToISOString(t),
               lastInsightRun |-> NULL]]

\* a handler that forgets cache.setInsight
StoreInsightSkip(cache, dataHash, insight, t) ==
    [insightCache |-> cache, lastInsightRun |-> ToISOString(t)]

\* lines 338-340: store the insight analyzeInsight returned, read it back
StoreInsight(cache, dataHash, insight, t) ==
    LET cache1 == SetInsight(cache, dataHash, insight, t)
        newCachedInsight == GetInsight(cache1, dataHash, t)
    IN [insightCache |-> AfterGetInsight(cache1, dataHash, t),
        lastInsightRun |-> IF newCachedInsight # NULL
                           THEN newCachedInsight.lastInsightRun
                           ELSE ToISOString(t)]

\* res.status(200).json(response): the request is over
Respond(r, rq, insight, lastInsightRun) ==
    /\ log' = Append(log, [rq EXCEPT !.response =
                              HandlerResponse(rq.fetched, insight, lastInsightRun)])
    /\ pc' = [pc EXCEPT ![r] = "idle"]
    /\ req' = [req EXCEPT ![r] = IdleReq]

\* a request arrives: the handler runs up to the awaits of the three fetchers
RequestStep(r, refresh) ==
    /\ pc[r] = "idle"
    /\ ~MicrotaskPending
    /\ LET st0 == [dataCache |-> dataCache, sourceCache |-> sourceCache,
                   settled |-> IdleReq.settled, via |-> IdleReq.via]
           st == FetchAllSync(st0, 1, env, now)
       IN /\ dataCache' = st.dataCache
          /\ sourceCache' = st.sourceCache
          /\ req' = [req EXCEPT ![r] = [IdleReq EXCEPT !.isManualRefresh = refresh,
                                                        !.startedAt = now,
                                                        !.respondedBefore = Len(log),
                                                        !.settled = st.settled,
                                                        !.via = st.via]]
    /\ pc' = [pc EXCEPT ![r] = "fetching"]
    /\ started' = started + 1
    /\ UNCHANGED <<now, ticks, env, insightLib, insightCache, aiCalls, log, probe>>

\* the requests of a run are bounded
Request(r, refresh) ==
    /\ started < MaxReqs
    /\ RequestStep(r, refresh)

\* the upstream of one source answers (or the call fails): the fetcher and
\* then fetchWithCache run on
UpstreamReply(r, source, reply) ==
    /\ pc[r] = "fetching"
    /\ req[r].via[source] = "await"
    /\ ~MicrotaskPending
    /\ LET out == AfterFetch(source, reply)
           res == FetchWithCacheResolve(dataCache, source, out.data, now)
       IN /\ sourceCache' =
                IF out.live
                THEN [sourceCache EXCEPT ![source] =
                         SimpleCacheSet(@, CACHE_KEY(source), out.data,
                                        CACHE_TTL(source), now)]
                ELSE sourceCache
          /\ dataCache' = IF out.threw THEN dataCache ELSE res.dataCache
          /\ req' = [req EXCEPT
                ![r].settled[source] =
                    IF out.threw THEN FetchWithCacheCatch(HandlerFallback(source), now)
                    ELSE res.settled,
                ![r].via[source] = IF out.threw THEN "rethrew" ELSE "fetched",
                ![r].returned[source] = out.data,
                ![r].live[source] = out.live]
    /\ UNCHANGED <<now, ticks, env, insightLib, insightCache, pc, started, aiCalls,
                   log, probe>>

\* all three results are in: the handler runs from line 322 up to its
\* response, or up to the await of the text-generation API
Analyze(r) ==
    /\ pc[r] = "fetching"
    /\ AllSettled(r)
    /\ LET fetched == FetchAllDataResult(req[r].settled, now)
           currentDataHash ==
               GenerateDataHash(fetched.production, fetched.energy, fetched.weather)
           cachedInsight == GetInsight(insightCache, currentDataHash, now)
           insightCache1 == AfterGetInsight(insightCache, currentDataHash, now)
           needsInsightUpdate == NeedsInsightUpdate(req[r].isManualRefresh, cachedInsight)
           data == [production |-> fetched.production, energy |-> fetched.energy,
                    weather |-> fetched.weather]
           rq == [req[r] EXCEPT !.fetched = fetched,
                                !.currentDataHash = currentDataHash,
                                !.lookupAt = now,
                                !.cachedInsight = cachedInsight,
                                !.analyzed = needsInsightUpdate]
           sync == AnalyzeInsightSync(insightLib, data, env, now)
       IN IF ~needsInsightUpdate
          THEN /\ insightCache' = insightCache1
               /\ insightLib' = insightLib
               /\ aiCalls' = aiCalls
               /\ Respond(r, rq, cachedInsight.insight, cachedInsight.lastInsightRun)
          ELSE IF sync.done
          THEN LET stored == StoreInsight(insightCache1, currentDataHash,
                                          sync.insight, now)
               IN /\ insightCache' = stored.insightCache
                  /\ insightLib' = sync.cache
                  /\ aiCalls' = aiCalls
                  /\ Respond(r, rq, sync.insight, stored.lastInsightRun)
          ELSE /\ insightCache' = insightCache1
               /\ insightLib' = sync.cache
               /\ pc' = [pc EXCEPT ![r] = "awaitAI"]
               /\ req' = [req EXCEPT ![r] = [rq EXCEPT !.aiCalled = TRUE]]
               /\ aiCalls' = aiCalls + 1
               /\ log' = log
    /\ UNCHANGED <<now, ticks, env, sourceCache, dataCache, started, probe>>

\* the text-generation API answers (or the call fails): analyzeInsight and
\* then the handler run on to the response
AIReply(r, reply) ==
    /\ pc[r] = "awaitAI"
    /\ ~MicrotaskPending
    /\ LET data == [production |-> req[r].fetched.production,
                    energy |-> req[r].fetched.energy,
                    weather |-> req[r].fetched.weather]
           res == AnalyzeInsightAfterFetch(insightLib, data, reply, now)
           stored == StoreInsight(insightCache, req[r].currentDataHash,
                                  res.insight, now)
       IN /\ insightLib' = res.cache
          /\ insightCache' = stored.insightCache
          /\ Respond(r, [req[r] EXCEPT !.aiOk = AiSucceeds(reply)],
                     res.insight, stored.lastInsightRun)
    /\ UNCHANGED <<now, ticks, env, sourceCache, dataCache, started, aiCalls, probe>>

\* time passes: by a minute at any moment, by longer between two requests.
\* The clock is left alone before the first request (nothing depends on when
\* the process started) and once the last request of the run has responded.
TickSteps == {1, 10, 15, 30, 60}

Tick(d) ==
    /\ ticks < MaxTicks
    /\ ~MicrotaskPending
    /\ d > 1 => \A r \in Slots : pc[r] = "idle"
    /\ started > 0
    /\ started < MaxReqs \/ \E r \in Slots : pc[r] # "idle"
    /\ now' = now + d
    /\ ticks' = ticks + 1
    /\ UNCHANGED <<env, sourceCache, insightLib, dataCache, insightCache,
                   pc, req, started, aiCalls, log, probe>>

-----------------------------------------------------------------------------
(* The environment of Spec: what the upstreams may answer *)

Obs(date, value) == [date |-> date, value |-> value]

Point(period, value) == [period |-> period, value |-> value]

ClearSky == <<[id |-> 800, main |-> "Clear", description |-> "clear sky"]>>

FredReplies ==
    {NetworkError, HttpError, Malformed, FredNoObservations, FredBody(<<>>),
     FredBody(<<Obs(2, Num(10312)), Obs(1, Num(10260))>>)}

EiaReplies ==
    {NetworkError, HttpError, Malformed, EiaNoData, EiaBody(<<>>),
     EiaBody(<<Point(2, Num(13504)), Point(1, Num(12500))>>)}

WeatherReplies ==
    {NetworkError, HttpError, Malformed,
     WeatherBody(NotNum("none"), <<>>, <<>>),
     WeatherBody(Num(1041), ClearSky, <<>>)}

Replies(source) ==
    CASE source = "fred" -> FredReplies
      [] source = "eia" -> EiaReplies
      [] source = "weather" -> WeatherReplies

\* the text the API generates differs from one call to the next: the n-th
\* call answers with the n-th insight
AiInsight(n) ==
    Insight("AI summary " \o ToString(n), "AI recommendation " \o ToString(n))

AiReplies(n) ==
    {NetworkError, HttpError, Malformed, AiBody(NULL), AiBody(AiInsight(n))}

\* the credentials of the process: all of them, or all but one
Configs == {Credentials} \cup {Credentials \ {k} : k \in Credentials}

NoProbe == [kind |-> "none"]

Init ==
    /\ now = 1
    /\ ticks = 0
    /\ env \in Configs
    /\ sourceCache = [s \in Sources |-> EmptyMap]
    /\ insightLib = EmptyMap
    /\ dataCache = EmptyMap
    /\ insightCache = EmptyMap
    /\ pc = [r \in Slots |-> "idle"]
    /\ req = [r \in Slots |-> IdleReq]
    /\ started = 0
    /\ aiCalls = 0
    /\ log = <<>>
    /\ probe = NoProbe

Next ==
    \/ \E r \in SeqSlots, refresh \in BOOLEAN : Request(r, refresh)
    \/ \E r \in SeqSlots, s \in Sources : \E reply \in Replies(s) : UpstreamReply(r, s, reply)
    \/ \E r \in SeqSlots : Analyze(r)
    \/ \E r \in SeqSlots : \E reply \in AiReplies(aiCalls) : AIReply(r, reply)
    \/ \E d \in TickSteps : Tick(d)

Spec == Init /\ [][Next]_vars

-----------------------------------------------------------------------------
(* One request whose upstreams may stay silent (SpecLive).  A call made    *)
(* with AbortSignal.timeout fails by itself when no answer comes; a call   *)
(* made without one waits for as long as the upstream is silent.           *)

\* the fetch of the source is given an AbortSignal.timeout: fetchWeather
\* does (part_005 line 107), fetchFred (line 67) and fetchEia (lines 87-93)
\* do not
HasTimeout(source) == source = "weather"

\* the timer of the call fires: fetch rejects
UpstreamTimeout(r, source) ==
    /\ HasTimeout(source)
    /\ UpstreamReply(r, source, NetworkError)

\* fetchInsight.ts line 240: the timer of the API call fires
AITimeout(r) == AIReply(r, NetworkError)

\* the only request of the run
FirstRequest(r, refresh) ==
    /\ started = 0
    /\ Request(r, refresh)

LiveNext ==
    \/ \E r \in SeqSlots, refresh \in BOOLEAN : FirstRequest(r, refresh)
    \/ \E r \in SeqSlots, s \in Sources : \E reply \in Replies(s) : UpstreamReply(r, s, reply)
    \/ \E r \in SeqSlots : Analyze(r)
    \/ \E r \in SeqSlots : \E reply \in AiReplies(aiCalls) : AIReply(r, reply)

\* the event loop runs every continuation that is ready and every timer that
\* is due; nothing obliges an upstream to answer
LiveFairness ==
    /\ \A r \in SeqSlots : WF_vars(Analyze(r))
    /\ \A r \in SeqSlots : WF_vars(AITimeout(r))
    /\ \A r \in SeqSlots : \A s \in Sources : WF_vars(UpstreamTimeout(r, s))

SpecLive == Init /\ [][LiveNext]_vars /\ LiveFairness

-----------------------------------------------------------------------------
(* Requests in which an unexpected exception is raised (SpecFault): at the *)
(* start of the handler, or once fetchAllData has returned.  Exceptions    *)
(* raised between lines 337 and 340 go to the inner catch block instead.   *)

\* an exception at line 319: the outer catch block answers
ThrowAtEntry(r, refresh) ==
    /\ pc[r] = "idle"
    /\ started < MaxReqs
    /\ ~MicrotaskPending
    /\ started' = started + 1
    /\ log' = Append(log, [IdleReq EXCEPT !.isManualRefresh = refresh,
                                          !.startedAt = now,
                                          !.respondedBefore = Len(log),
                                          !.caught = TRUE,
                                          !.response = HandlerCatch(now)])
    /\ UNCHANGED <<now, ticks, env, sourceCache, insightLib, dataCache,
                   insightCache, pc, req, aiCalls, probe>>

\* an exception between lines 322 and 327, after fetchAllData has returned
ThrowAfterFetch(r) ==
    /\ pc[r] = "fetching"
    /\ AllSettled(r)
    /\ log' = Append(log, [req[r] EXCEPT !.caught = TRUE,
                                         !.response = HandlerCatch(now)])
    /\ pc' = [pc EXCEPT ![r] = "idle"]
    /\ req' = [req EXCEPT ![r] = IdleReq]
    /\ UNCHANGED <<now, ticks, env, sourceCache, insightLib, dataCache,
                   insightCache, started, aiCalls, probe>>

FaultNext ==
    \/ LiveNext
    \/ \E r \in SeqSlots, refresh \in BOOLEAN : ThrowAtEntry(r, refresh)
    \/ \E r \in SeqSlots : ThrowAfterFetch(r)
    \/ \E d \in TickSteps : Tick(d)

SpecFault == Init /\ [][FaultNext]_vars

-----------------------------------------------------------------------------
(* Runs with every credential set, in which a call either fails or brings  *)
(* a usable body: three requests one after the other (SpecLong), and two   *)
(* requests that may be in flight at the same time (SpecConc).             *)

\* an upstream call fails, or answers with a body the fetcher accepts
FewReplies(source) ==
    {reply \in Replies(source) : reply = NetworkError \/ AfterFetch(source, reply).live}

\* the API call fails, or answers with an insight
FewAiReplies(n) == {NetworkError, AiBody(AiInsight(n))}

FullInit ==
    /\ Init
    /\ env = Credentials

LongRequest(r, refresh) ==
    /\ started < MaxLongReqs
    /\ RequestStep(r, refresh)

\* time passes between two requests
LongTick(d) ==
    /\ ticks < MaxTicks
    /\ \A r \in Slots : pc[r] = "idle"
    /\ started > 0
    /\ started < MaxLongReqs
    /\ now' = now + d
    /\ ticks' = ticks + 1
    /\ UNCHANGED <<env, sourceCache, insightLib, dataCache, insightCache,
                   pc, req, started, aiCalls, log, probe>>

LongNext ==
    \/ \E r \in SeqSlots, refresh \in BOOLEAN : LongRequest(r, refresh)
    \/ \E r \in SeqSlots, s \in Sources : \E reply \in FewReplies(s) : UpstreamReply(r, s, reply)
    \/ \E r \in SeqSlots : Analyze(r)
    \/ \E r \in SeqSlots : \E reply \in FewAiReplies(aiCalls) : AIReply(r, reply)
    \/ \E d \in {1, INSIGHT_TTL} : LongTick(d)

SpecLong == FullInit /\ [][LongNext]_vars

\* a request without the refresh flag takes the first free slot
ConcRequest(r) ==
    /\ \A q \in Slots : q < r => pc[q] # "idle"
    /\ Request(r, FALSE)

\* the upstreams answer a request in the order in which it called them; the
\* answers to two requests come in any order
ConcReply(r, i, reply) ==
    /\ \A j \in 1..(i - 1) : req[r].settled[SourceSeq[j]] # NULL
    /\ UpstreamReply(r, SourceSeq[i], reply)

\* a second request may arrive while the first is at one of its awaits
ConcNext ==
    \/ \E r \in Slots : ConcRequest(r)
    \/ \E r \in Slots, i \in DOMAIN SourceSeq :
          \E reply \in FewReplies(SourceSeq[i]) : ConcReply(r, i, reply)
    \/ \E r \in Slots : Analyze(r)
    \/ \E r \in Slots : \E reply \in FewAiReplies(aiCalls) : AIReply(r, reply)
    \/ \E d \in {1, WEATHER_TTL} : Tick(d)

SpecConc == FullInit /\ [][ConcNext]_vars

-----------------------------------------------------------------------------
(* The TTL caches on their own (SpecCache, SpecCacheSkew): set and get are *)
(* called on one of the four caches, with the clock moving in between.     *)
(* probe records the cache under test and, per key, the last set (what was *)
(* stored, when, with which ttl) and whether a get has since found the     *)
(* entry expired; lastOp is the last call and what it returned.            *)

CacheNames == {"SimpleCache", "InsightCache", "dataCache", "insightCache"}

CacheKeys == {"k1", "k2"}

CacheValues == {[data |-> "v1"], [data |-> "v2"]}

NoOp == [op |-> "none", key |-> "", at |-> 0, value |-> NULL,
         wasExpired |-> FALSE, wasEvicted |-> FALSE, had |-> NULL]

\* the map of the cache under test
CacheMap(cut) ==
    CASE cut = "SimpleCache" -> sourceCache["fred"]
      [] cut = "InsightCache" -> insightLib
      [] cut = "dataCache" -> dataCache
      [] cut = "insightCache" -> insightCache

\* the ttl a set on the cache under test may be given: SimpleCache.set and
\* setData take it as an argument, the insight caches have their own
TtlsOf(cut) ==
    IF cut \in {"SimpleCache", "dataCache"} THEN {EIA_TTL, WEATHER_TTL} ELSE {30}

CacheInit ==
    /\ now = 1
    /\ ticks = 0
    /\ env = Credentials
    /\ sourceCache = [s \in Sources |-> EmptyMap]
    /\ insightLib = EmptyMap
    /\ dataCache = EmptyMap
    /\ insightCache = EmptyMap
    /\ pc = [r \in Slots |-> "idle"]
    /\ req = [r \in Slots |-> IdleReq]
    /\ started = 0
    /\ aiCalls = 0
    /\ log = <<>>
    /\ \E cut \in CacheNames :
          probe = [kind |-> "cache", cut |-> cut, ops |-> 0, lastOp |-> NoOp,
                   stored |-> [k \in CacheKeys |-> NULL],
                   evicted |-> [k \in CacheKeys |-> FALSE]]

\* set(key, value, ttl) on the cache under test
CacheSetOp(key, value, ttl) ==
    /\ probe.ops < MaxCacheOps
    /\ ttl \in TtlsOf(probe.cut)
    /\ sourceCache' = IF probe.cut = "SimpleCache"
                      THEN [sourceCache EXCEPT !["fred"] =
                               SimpleCacheSet(@, key, value, ttl, now)]
                      ELSE sourceCache
    /\ insightLib' = IF probe.cut = "InsightCache"
                     THEN InsightCacheSet(insightLib, key, value, now)
                     ELSE insightLib
    /\ dataCache' = IF probe.cut = "dataCache"
                    THEN SetData(dataCache, key, value, ttl, now)
                    ELSE dataCache
    /\ insightCache' = IF probe.cut = "insightCache"
                       THEN SetInsight(insightCache, key, value, now)
                       ELSE insightCache
    /\ probe' = [probe EXCEPT
                    !.ops = @ + 1,
                    !.lastOp = [NoOp EXCEPT !.op = "set", !.key = key, !.at = now,
                                            !.value = value,
                                            !.had = MapGet(CacheMap(probe.cut), key)],
                    !.stored[key] = [value |-> value, at |-> now, ttl |-> ttl],
                    !.evicted[key] = FALSE]
    /\ UNCHANGED <<now, ticks, env, pc, req, started, aiCalls, log>>

\* the value a get on the cache under test hands back (NULL when absent)
CacheGetValue(cut, key) ==
    CASE cut = "SimpleCache" -> SimpleCacheGet(sourceCache["fred"], key, now)
      [] cut = "InsightCache" -> InsightCacheGet(insightLib, key, now)
      [] cut = "dataCache" ->
             LET item == GetData(dataCache, key, now) IN
             IF item = NULL THEN NULL ELSE item.data
      [] cut = "insightCache" ->
             LET item == GetInsight(insightCache, key, now) IN
             IF item = NULL THEN NULL ELSE item.insight

\* get(key) on the cache under test
CacheGetOp(key) ==
    /\ probe.ops < MaxCacheOps
    /\ sourceCache' = IF probe.cut = "SimpleCache"
                      THEN [sourceCache EXCEPT !["fred"] =
                               SimpleCacheAfterGet(@, key, now)]
                      ELSE sourceCache
    /\ insightLib' = IF probe.cut = "InsightCache"
                     THEN InsightCacheAfterGet(insightLib, key, now)
                     ELSE insightLib
    /\ dataCache' = IF probe.cut = "dataCache"
                    THEN AfterGetData(dataCache, key, now)
                    ELSE dataCache
    /\ insightCache' = IF probe.cut = "insightCache"
                       THEN AfterGetInsight(insightCache, key, now)
                       ELSE insightCache
    /\ LET item == MapGet(CacheMap(probe.cut), key)
           wasExpired == item # NULL /\ now > item.expires
       IN probe' = [probe EXCEPT
                       !.ops = @ + 1,
                       !.lastOp = [op |-> "get", key |-> key, at |-> now,
                                   value |-> CacheGetValue(probe.cut, key),
                                   wasExpired |-> wasExpired,
                                   wasEvicted |-> probe.evicted[key],
                                   had |-> item],
                       !.evicted[key] = @ \/ wasExpired]
    /\ UNCHANGED <<now, ticks, env, pc, req, started, aiCalls, log>>

\* time passes
CacheTick(d) ==
    /\ ticks < MaxTicks
    /\ now' = now + d
    /\ ticks' = ticks + 1
    /\ UNCHANGED <<env, sourceCache, insightLib, dataCache, insightCache,
                   pc, req, started, aiCalls, log, probe>>

\* the system clock is set back
ClockBack(d) ==
    /\ ticks < MaxTicks
    /\ now - d >= 1
    /\ now' = now - d
    /\ ticks' = ticks + 1
    /\ UNCHANGED <<env, sourceCache, insightLib, dataCache, insightCache,
                   pc, req, started, aiCalls, log, probe>>

CacheNext ==
    \/ \E k \in CacheKeys, v \in CacheValues, ttl \in {EIA_TTL, WEATHER_TTL, 30} :
          CacheSetOp(k, v, ttl)
    \/ \E k \in CacheKeys : CacheGetOp(k)
    \/ \E d \in TickSteps : CacheTick(d)

SpecCache == CacheInit /\ [][CacheNext]_vars

CacheSkewNext ==
    \/ CacheNext
    \/ \E d \in TickSteps : ClockBack(d)

SpecCacheSkew == CacheInit /\ [][CacheSkewNext]_vars

-----------------------------------------------------------------------------
(* The fingerprint on its own (SpecHash): both hash functions are called   *)
(* on metric triples; probe.seen is what the calls made so far returned.   *)

HashIndexes == {10240, 10244, 10310}

HashProductionTrends == {TrendText("→", "Data unavailable"), TrendPct("↑", 5)}

HashPrices == {12500, 12504}

HashEnergyTrends == {"stable", "up"}

HashTemps == {72, 73}

HashAlerts == {"none"}

HashInputs ==
    [production : [index : HashIndexes, trend : HashProductionTrends],
     energy : [centsPerKwh : HashPrices, trend : HashEnergyTrends],
     weather : [temp : HashTemps, alert : HashAlerts]]

HashInit ==
    /\ now = 1
    /\ ticks = 0
    /\ env = Credentials
    /\ sourceCache = [s \in Sources |-> EmptyMap]
    /\ insightLib = EmptyMap
    /\ dataCache = EmptyMap
    /\ insightCache = EmptyMap
    /\ pc = [r \in Slots |-> "idle"]
    /\ req = [r \in Slots |-> IdleReq]
    /\ started = 0
    /\ aiCalls = 0
    /\ log = <<>>
    /\ probe = [kind |-> "hash", seen |-> {}]

\* both generateDataHash functions are called on one triple
HashCall(data) ==
    /\ Cardinality(probe.seen) < MaxHashCalls
    /\ probe' = [probe EXCEPT !.seen = @ \cup
                    {[input |-> data,
                      sha1 |-> GenerateDataHash(data.production, data.energy,
                                                data.weather),
                      md5 |-> InsightGenerateDataHash(data)]}]
    /\ UNCHANGED <<now, ticks, env, sourceCache, insightLib, dataCache,
                   insightCache, pc, req, started, aiCalls, log>>

HashNext == \E data \in HashInputs : HashCall(data)

SpecHash == HashInit /\ [][HashNext]_vars

-----------------------------------------------------------------------------
(* The insight generator on its own (SpecInsight): analyzeInsight is called *)
(* on metric triples of every shape, with every outcome of the API call,    *)
(* on an InsightCache that holds what earlier calls left or insights stored *)
(* under other fingerprints.  probe.produced is when each key's insight was *)
(* stored; lastOp is the last call, what it found and what it returned.     *)

InsightTemps == {75, 100}

InsightAlerts == {"none", "Weather data unavailable", "Extreme heat warning"}

InsightProductionTrends ==
    {TrendPct("↑", 5), TrendPct("↓", 5), TrendText("→", "Data unavailable")}

ValidInputs ==
    [production : [index : {10240}, trend : InsightProductionTrends],
     energy : [centsPerKwh : {12500}, trend : {"up", "stable"}],
     weather : [temp : InsightTemps, alert : InsightAlerts]]

\* inputs validateInputData rejects: null, a triple without weather, a
\* production without index, an energy trend outside up / down / stable
InvalidInputs ==
    {NULL,
     [production |-> FredFallback, energy |-> EiaFallback],
     [production |-> [trend |-> TrendText("→", "Data unavailable")],
      energy |-> EiaFallback, weather |-> WeatherFallback],
     [production |-> FredFallback,
      energy |-> [centsPerKwh |-> 12500, trend |-> "sideways"],
      weather |-> WeatherFallback]}

InsightInputs == ValidInputs \cup InvalidInputs

MapKeys(m) == {m[i].k : i \in DOMAIN m}

\* fingerprints of other metric triples
OtherFingerprint(n) == CreateHash("md5", <<<<ToString(n), <<>>>>>>)

NoCall == [op |-> "none", data |-> NULL, valid |-> FALSE, hit |-> FALSE,
           called |-> FALSE, ok |-> FALSE, before |-> {}, stale |-> NULL,
           result |-> NULL]

InsightInit ==
    /\ now = 1
    /\ ticks = 0
    /\ env \in {Credentials, Credentials \ {"CLAUDE_API_KEY"}}
    /\ sourceCache = [s \in Sources |-> EmptyMap]
    /\ insightLib = EmptyMap
    /\ dataCache = EmptyMap
    /\ insightCache = EmptyMap
    /\ pc = [r \in Slots |-> "idle"]
    /\ req = [r \in Slots |-> IdleReq]
    /\ started = 0
    /\ aiCalls = 0
    /\ log = <<>>
    /\ \E data \in InsightInputs :
          probe = [kind |-> "insight", data |-> data, ops |-> 0, lastOp |-> NoCall,
                   produced |-> <<>>]

\* an insight generated earlier for other metrics sits in the cache
InsightSeed(key, n) ==
    /\ probe.ops < MaxCacheOps
    /\ insightLib' = InsightCacheSet(insightLib, key, AiInsight(n), now)
    /\ probe' = [probe EXCEPT !.ops = @ + 1,
                              !.lastOp = NoCall,
                              !.produced = MapSet(@, key, [insight |-> AiInsight(n),
                                                           at |-> now])]
    /\ UNCHANGED <<now, ticks, env, sourceCache, dataCache, insightCache,
                   pc, req, started, aiCalls, log>>

\* analyzeInsight(data), the API answering with reply when it is called
InsightCall(reply) ==
    /\ probe.ops < MaxCacheOps
    /\ LET data == probe.data
           sync == AnalyzeInsightSync(insightLib, data, env, now)
           res == IF sync.done THEN [insight |-> sync.insight, cache |-> sync.cache]
                  ELSE AnalyzeInsightAfterFetch(sync.cache, data, reply, now)
           valid == ValidateInputData(data)
           hit == valid /\ InsightCacheGet(insightLib, InsightGenerateDataHash(data), now) # NULL
           ok == ~sync.done /\ AiSucceeds(reply)
           \* the entry of the fingerprint as the call finds it, when expired
           item == IF valid THEN MapGet(insightLib, InsightGenerateDataHash(data))
                   ELSE NULL
           stale == IF item = NULL THEN NULL
                    ELSE IF InsightCacheExpired(item, now) THEN item.data ELSE NULL
       IN /\ insightLib' = res.cache
          /\ aiCalls' = IF sync.done THEN aiCalls ELSE aiCalls + 1
          /\ probe' = [probe EXCEPT
                !.ops = @ + 1,
                !.lastOp = [op |-> "analyze", data |-> data, valid |-> valid,
                            hit |-> hit, called |-> ~sync.done, ok |-> ok,
                            before |-> MapKeys(sync.cache), stale |-> stale,
                            result |-> res.insight],
                !.produced = IF ok
                             THEN MapSet(@, InsightGenerateDataHash(data),
                                         [insight |-> res.insight, at |-> now])
                             ELSE @]
    /\ UNCHANGED <<now, ticks, env, sourceCache, dataCache, insightCache,
                   pc, req, started, log>>

\* generateFallbackInsight(production, energy, weather) of the handler
FallbackCall ==
    /\ probe.ops < MaxCacheOps
    /\ probe.data \in ValidInputs
    /\ LET data == probe.data IN
       probe' = [probe EXCEPT
          !.ops = @ + 1,
          !.lastOp = [NoCall EXCEPT
                         !.op = "fallback", !.data = data, !.valid = TRUE,
                         !.result = GenerateFallbackInsight(data.production,
                                                            data.energy, data.weather)]]
    /\ UNCHANGED <<now, ticks, env, sourceCache, insightLib, dataCache,
                   insightCache, pc, req, started, aiCalls, log>>

InsightNext ==
    \/ \E n \in {1, 2} : InsightSeed(OtherFingerprint(n), n)
    \/ \E reply \in AiReplies(aiCalls + 1) : InsightCall(reply)
    \/ FallbackCall
    \/ \E d \in {1, INSIGHT_CACHE_TTL} : CacheTick(d)

SpecInsight == InsightInit /\ [][InsightNext]_vars

-----------------------------------------------------------------------------
(* Properties of the handler (checked under Spec) *)

\* the key of the payload that carries a source's metric
Field(source) ==
    CASE source = "fred" -> "production"
      [] source = "eia" -> "energy"
      [] source = "weather" -> "weather"

\* the documented fallback literals: production 102.4 / '→ Data unavailable',
\* energy 12.5 / 'stable', weather 75 / 'Weather data unavailable'
DocumentedFallback(source) ==
    CASE source = "fred" ->
             [index |-> 10240,
              trend |-> [sign |-> "→", pct10 |-> NoPct, label |-> "Data unavailable"]]
      [] source = "eia" -> [centsPerKwh |-> 12500, trend |-> "stable"]
      [] source = "weather" -> [temp |-> 75, alert |-> "Weather data unavailable"]

Metric(entry, source) == entry.response.body.data[Field(source)]

\* the upstream call of the source was made and failed in this request
UpstreamFailed(entry, source) ==
    entry.via[source] \in {"fetched", "rethrew"} /\ ~entry.live[source]

\* the upstream call of the source was made and succeeded in this request
UpstreamSucceeded(entry, source) ==
    entry.via[source] = "fetched" /\ entry.live[source]

\* C1: every response of the handler has status 200 and a payload with
\* production, energy, weather and insight, plus lastFetched and
\* lastInsightRun, whatever the fetches and the AI call did.
C1_AlwaysComplete200 ==
    \A i \in DOMAIN log :
        LET res == log[i].response IN
        /\ res.status = 200
        /\ DOMAIN res.body = {"data", "lastFetched", "lastInsightRun"}
        /\ DOMAIN res.body.data = {"production", "energy", "weather", "insight"}
        /\ \A k \in DOMAIN res.body.data : res.body.data[k] # NULL
        /\ DOMAIN res.body.data.insight = {"summary", "recommendation"}
        /\ res.body.lastFetched # NULL

\* a response to a request in which a source threw, another source's upstream
\* failed and the AI call failed
C1_Witness ==
    \E i \in DOMAIN log :
        /\ \E s \in Sources : log[i].via[s] = "threw"
        /\ \E s \in Sources : UpstreamFailed(log[i], s)
        /\ log[i].aiCalled /\ ~log[i].aiOk
        /\ log[i].response.status = 200

\* C2: in every response, the metric of each source whose upstream call
\* succeeded in the request is the value the fetcher computed from the
\* upstream body, whichever other sources failed.
C2_FaultIsolation ==
    \A i \in DOMAIN log : \A s \in Sources :
        UpstreamSucceeded(log[i], s) =>
            /\ Metric(log[i], s) = log[i].returned[s]
            /\ Metric(log[i], s) # DocumentedFallback(s)

\* a response with one live source while the two others failed
C2_Witness ==
    \E i \in DOMAIN log : \E s \in Sources :
        /\ UpstreamSucceeded(log[i], s)
        /\ \A o \in Sources \ {s} : UpstreamFailed(log[i], o)
        /\ Metric(log[i], s) = log[i].returned[s]

\* the upstream call failed: network error, non-2xx status, unparsable or
\* empty body
FailedReply(source, reply) ==
    \/ reply.net # "ok"
    \/ ~reply.ok
    \/ ~reply.json
    \/ CASE source = "fred" -> ~reply.hasObservations \/ reply.observations = <<>>
         [] source = "eia" -> ~reply.hasData \/ reply.series[1].data = <<>>
         [] source = "weather" -> reply.temp.kind # "num"

C4_MissingCredential ==
    \A i \in DOMAIN log : \A s \in Sources :
        ApiKeyOf(s) \notin env =>
            /\ log[i].response.status = 200
            /\ Metric(log[i], s) = DocumentedFallback(s)
            /\ \A o \in Sources \ {s} :
                  UpstreamSucceeded(log[i], o) => Metric(log[i], o) = log[i].returned[o]

\* a response of a process without a source's credential, with both other
\* sources live
C4_Witness ==
    \E i \in DOMAIN log : \E s \in Sources :
        /\ ApiKeyOf(s) \notin env
        /\ log[i].via[s] = "threw"
        /\ Metric(log[i], s) = DocumentedFallback(s)
        /\ \A o \in Sources \ {s} : UpstreamSucceeded(log[i], o)

\* C9: of two consecutive requests without the refresh flag and with the
\* same fingerprint, the first having got its insight from the API, the
\* second, if it looks the insight up at most 30 minutes after the first
\* stored it, does not call analyzeInsight nor the API and serves the same
\* insight.
C9_InsightReuse ==
    \A i \in DOMAIN log : (i + 1) \in DOMAIN log =>
        LET a == log[i]
            b == log[i + 1]
        IN (/\ ~a.isManualRefresh /\ ~b.isManualRefresh
            /\ a.currentDataHash = b.currentDataHash
            /\ a.aiCalled /\ a.aiOk
            /\ b.lookupAt <= GetTime(a.response.body.lastInsightRun) + 30)
           => /\ ~b.aiCalled
              /\ ~b.analyzed
              /\ b.response.body.data.insight = a.response.body.data.insight

\* such a pair, the second request looking the insight up on the last minute
\* of the 30
C9_Witness ==
    \E i \in DOMAIN log : (i + 1) \in DOMAIN log /\
        LET a == log[i]
            b == log[i + 1]
        IN /\ ~a.isManualRefresh /\ ~b.isManualRefresh
           /\ a.currentDataHash = b.currentDataHash
           /\ a.aiCalled /\ a.aiOk
           /\ b.lookupAt = GetTime(a.response.body.lastInsightRun) + 30
           /\ ~b.aiCalled
           /\ b.response.body.data.insight = a.response.body.data.insight

\* the second of two requests is served from fresh cache entries only
ServedFromCache(b) ==
    /\ \A s \in Sources : b.via[s] = "dataCache"
    /\ b.cachedInsight # NULL

\* C10: of two consecutive requests without the refresh flag, made a minute
\* apart, the second one inside the TTL of every source's cache entry and of
\* the insight's, the second response equals the first in every field.
C10_IdenticalResponse ==
    \A i \in DOMAIN log : (i + 1) \in DOMAIN log =>
        LET a == log[i]
            b == log[i + 1]
        IN (/\ ~a.isManualRefresh /\ ~b.isManualRefresh
            /\ b.startedAt = a.startedAt + 1
            /\ ServedFromCache(b))
           => b.response = a.response

\* such a pair, the first request having fetched live data and a new insight
C10_Witness ==
    \E i \in DOMAIN log : (i + 1) \in DOMAIN log /\
        LET a == log[i]
            b == log[i + 1]
        IN /\ ~a.isManualRefresh /\ ~b.isManualRefresh
           /\ b.startedAt = a.startedAt + 1
           /\ ServedFromCache(b)
           /\ \E s \in Sources : UpstreamSucceeded(a, s)
           /\ a.aiCalled /\ a.aiOk
           /\ b.response = a.response

\* the request looked for the metric of the source and found none cached:
\* its fetch failed (missing credential, or failed upstream call)
FetchFailed(entry, source) ==
    entry.via[source] = "threw" \/ UpstreamFailed(entry, source)

\* C11: a request with the refresh flag that finds a fresh insight cached for
\* its fingerprint calls analyzeInsight all the same, and the lastInsightRun
\* of its response is not earlier than its lookup, hence later than the
\* lastInsightRun of the cached insight whenever the clock has advanced
\* since that insight was stored.
C11_RefreshRegenerates ==
    \A i \in DOMAIN log :
        LET b == log[i] IN
        (b.isManualRefresh /\ b.cachedInsight # NULL) =>
            /\ b.analyzed
            /\ GetTime(b.response.body.lastInsightRun) >= b.lookupAt
            /\ b.lookupAt > GetTime(b.cachedInsight.lastInsightRun) =>
                  GetTime(b.response.body.lastInsightRun)
                      > GetTime(b.cachedInsight.lastInsightRun)

\* a refresh request that found a fresh insight and answered with a later
\* lastInsightRun
C11_Witness ==
    \E i \in DOMAIN log :
        LET b == log[i] IN
        /\ b.isManualRefresh
        /\ b.cachedInsight # NULL
        /\ b.cachedInsight.dataHash = b.currentDataHash
        /\ b.analyzed
        /\ GetTime(b.response.body.lastInsightRun)
               > GetTime(b.cachedInsight.lastInsightRun)

\* the insights that are fixed literals of the code: the rule table's pairs
\* and the pair of the static snapshot
FixedInsights ==
    {[summary |-> "Extreme heat conditions detected",
      recommendation |-> "Consider shifting operations to cooler hours to reduce energy costs"],
     [summary |-> "Energy costs trending upward",
      recommendation |-> "Optimize energy usage and consider off-peak scheduling"],
     [summary |-> "Weather alert active",
      recommendation |-> "Monitor weather conditions and prepare contingency plans"],
     [summary |-> "Production index declining",
      recommendation |-> "Review production processes and identify improvement opportunities"],
     [summary |-> "Production performing well",
      recommendation |-> "Maintain current efficiency while monitoring energy costs"],
     [summary |-> "Data analysis temporarily unavailable",
      recommendation |-> "Monitor key metrics and adjust operations as needed"],
     [summary |-> "System temporarily unavailable",
      recommendation |-> "Please try refreshing in a few minutes"]}

\* C12: the first request of a process (empty caches), when the fetch of
\* every source fails and no insight comes from the AI call, is answered
\* with the three fallback metrics, a fixed insight and lastInsightRun = null.
C12_AllFailSnapshot ==
    (Len(log) >= 1 /\ (\A s \in Sources : FetchFailed(log[1], s))
                   /\ log[1].analyzed /\ ~log[1].aiOk) =>
        /\ \A s \in Sources : Metric(log[1], s) = DocumentedFallback(s)
        /\ log[1].response.body.data.insight \in FixedInsights
        /\ log[1].response.body.lastInsightRun = NULL

\* the metric of the source was obtained: from its upstream in this request,
\* or from a cache entry that holds a value an upstream returned
Obtained(entry, source) ==
    \/ UpstreamSucceeded(entry, source)
    \/ /\ entry.via[source] \in {"dataCache", "libCache"}
       /\ Metric(entry, source) # DocumentedFallback(source)

\* C13: when the production fetch of a request fails while energy and
\* weather are obtained, lastFetched is the later of the energy and the
\* weather timestamp.
C13_LastFetchedSuccessOnly ==
    \A i \in DOMAIN log :
        LET e == log[i] IN
        (FetchFailed(e, "fred") /\ Obtained(e, "eia") /\ Obtained(e, "weather")) =>
            GetTime(e.response.body.lastFetched) =
                SetMax({GetTime(e.settled["eia"].lastFetched),
                        GetTime(e.settled["weather"].lastFetched)})

\* the TTL documented for each source: production 1 hour, energy 10 minutes,
\* weather 15 minutes
DocumentedTtl(source) ==
    CASE source = "fred" -> 60
      [] source = "eia" -> 10
      [] source = "weather" -> 15

\* the request issued an outbound call for the source
CalledUpstream(entry, source) == entry.via[source] \in {"fetched", "rethrew"}

\* C18: once the upstream call of a source has succeeded at t0 in a request,
\* the next request, if made before t0 + TTL, issues no call for the source
\* and returns the value cached at t0, and if made after t0 + TTL issues a
\* new call.
C18_SourceTtl ==
    \A i \in DOMAIN log : (i + 1) \in DOMAIN log =>
        LET a == log[i]
            b == log[i + 1]
        IN \A s \in Sources :
            UpstreamSucceeded(a, s) =>
                LET t0 == GetTime(a.settled[s].lastFetched) IN
                /\ b.startedAt < t0 + DocumentedTtl(s) =>
                      /\ ~CalledUpstream(b, s)
                      /\ Metric(b, s) = a.returned[s]
                /\ b.startedAt > t0 + DocumentedTtl(s) => CalledUpstream(b, s)

\* energy and weather were fetched in the same request; the next request,
\* made after the energy TTL and before the weather TTL, calls the energy
\* upstream again and serves the weather value from the cache
C18_Witness ==
    \E i \in DOMAIN log : (i + 1) \in DOMAIN log /\
        LET a == log[i]
            b == log[i + 1]
        IN /\ UpstreamSucceeded(a, "eia")
           /\ UpstreamSucceeded(a, "weather")
           /\ b.startedAt > GetTime(a.settled["eia"].lastFetched) + 10
           /\ CalledUpstream(b, "eia")
           /\ b.startedAt < GetTime(a.settled["weather"].lastFetched) + 15
           /\ ~CalledUpstream(b, "weather")
           /\ Metric(b, "weather") = a.returned["weather"]

\* C20: a request with the refresh flag that finds a fresh insight cached
\* for its fingerprint calls the text-generation API (its credential being
\* present) and, when the call succeeds, serves the insight just generated.
C20_RefreshCallsApi ==
    \A i \in DOMAIN log :
        LET b == log[i] IN
        (b.isManualRefresh /\ b.cachedInsight # NULL /\ "CLAUDE_API_KEY" \in env) =>
            /\ b.aiCalled
            /\ b.aiOk => b.response.body.data.insight # b.cachedInsight.insight

\* C17: every request gets its response, even when upstreams never answer.
C17_AlwaysResponds ==
    \A r \in SeqSlots : (pc[r] # "idle") ~> (pc[r] = "idle")

\* the response the outer catch block is documented to give: the static
\* snapshot, lastInsightRun = null, status 200
StaticSnapshot(res) ==
    /\ res.status = 200
    /\ res.body.data =
          [production |-> [index |-> 10240,
                           trend |-> [sign |-> "→", pct10 |-> NoPct,
                                      label |-> "Data unavailable"]],
           energy |-> [centsPerKwh |-> 12500, trend |-> "stable"],
           weather |-> [temp |-> 75, alert |-> "Data unavailable"],
           insight |-> [summary |-> "System temporarily unavailable",
                        recommendation |-> "Please try refreshing in a few minutes"]]
    /\ res.body.lastInsightRun = NULL

-----------------------------------------------------------------------------
(* Properties of the TTL caches (checked under SpecCache, SpecCacheSkew) *)

CacheGot == probe.kind = "cache" /\ probe.lastOp.op = "get"

\* C5 as stated: a value stored at t0 with ttl is returned by get at every
\* t < t0 + ttl and is absent at every t >= t0 + ttl.
C5_AsStated ==
    CacheGot /\ probe.stored[probe.lastOp.key] # NULL =>
        LET set == probe.stored[probe.lastOp.key]
            get == probe.lastOp
        IN /\ get.at < set.at + set.ttl => get.value = set.value
           /\ get.at >= set.at + set.ttl => get.value = NULL

\* C5, amended: a value stored at t0 with ttl is returned by get at every
\* t <= t0 + ttl and is absent at every t > t0 + ttl (while the clock does
\* not go back).
C5_TtlWindow ==
    CacheGot /\ probe.stored[probe.lastOp.key] # NULL =>
        LET set == probe.stored[probe.lastOp.key]
            get == probe.lastOp
        IN /\ get.at <= set.at + set.ttl => get.value = set.value
           /\ get.at > set.at + set.ttl => get.value = NULL

\* a get at exactly t0 + ttl that returned the value
C5_Witness ==
    /\ CacheGot
    /\ probe.stored[probe.lastOp.key] # NULL
    /\ probe.lastOp.at = probe.stored[probe.lastOp.key].at
                             + probe.stored[probe.lastOp.key].ttl
    /\ probe.lastOp.value = probe.stored[probe.lastOp.key].value

\* C6: a get that finds the entry of its key expired removes the entry, and
\* every get on the key after that and before the next set reports absent,
\* also when the clock has been set back in between.
C6_EvictOnRead ==
    CacheGot =>
        /\ probe.lastOp.wasExpired =>
              /\ ~MapHas(CacheMap(probe.cut), probe.lastOp.key)
              /\ probe.lastOp.value = NULL
        /\ probe.lastOp.wasEvicted => probe.lastOp.value = NULL

\* a get on an evicted key, made at a time at which the entry would have
\* been fresh
C6_Witness ==
    /\ CacheGot
    /\ probe.lastOp.wasEvicted
    /\ probe.stored[probe.lastOp.key] # NULL
    /\ probe.lastOp.at <= probe.stored[probe.lastOp.key].at
                              + probe.stored[probe.lastOp.key].ttl
    /\ probe.lastOp.value = NULL

-----------------------------------------------------------------------------
(* Properties of the fingerprint (checked under SpecHash) *)

\* the projection the fingerprint is documented to depend on: the index to 1
\* decimal, the price to 2 decimals, the temperature to the nearest 5
\* degrees, the trend and alert strings
Projection(data) ==
    <<MathRound(data.production.index, 10), data.production.trend,
      MathRound(data.energy.centsPerKwh, 10), data.energy.trend,
      MathRound(data.weather.temp, 5) * 5, data.weather.alert>>

\* C7: any two triples with equal projections get the same fingerprint,
\* whatever calls were made before.
C7_HashStable ==
    probe.kind = "hash" =>
        \A x, y \in probe.seen :
            Projection(x.input) = Projection(y.input) =>
                x.sha1 = y.sha1 /\ x.md5 = y.md5

\* two different triples with equal projections have been hashed
C7_Witness ==
    /\ probe.kind = "hash"
    /\ \E x, y \in probe.seen :
          /\ x.input # y.input
          /\ Projection(x.input) = Projection(y.input)
          /\ x.sha1 = y.sha1

\* C8: any two triples whose projections differ get different fingerprints.
C8_HashSensitive ==
    probe.kind = "hash" =>
        \A x, y \in probe.seen :
            Projection(x.input) # Projection(y.input) =>
                x.sha1 # y.sha1 /\ x.md5 # y.md5

-----------------------------------------------------------------------------
(* Properties of the insight generator (checked under SpecInsight) *)

\* the last call was analyzeInsight on a valid triple with no insight cached
\* for its fingerprint, and no insight came from the API
AiFailed ==
    /\ probe.kind = "insight"
    /\ probe.lastOp.op = "analyze"
    /\ probe.lastOp.valid /\ ~probe.lastOp.hit /\ ~probe.lastOp.ok

HeatPair ==
    [summary |-> "Extreme heat conditions detected",
     recommendation |-> "Consider shifting operations to cooler hours to reduce energy costs"]

EnergyPair ==
    [summary |-> "Energy costs trending upward",
     recommendation |-> "Optimize energy usage and consider off-peak scheduling"]

AlertPair ==
    [summary |-> "Weather alert active",
     recommendation |-> "Monitor weather conditions and prepare contingency plans"]

\* the last three rules: production down, production up, generic
ProductionOrGenericPair(data) ==
    IF data.production.trend.sign = "↓"
    THEN [summary |-> "Production index declining",
          recommendation |->
              "Review production processes and identify improvement opportunities"]
    ELSE IF data.production.trend.sign = "↑"
    THEN [summary |-> "Production performing well",
          recommendation |-> "Maintain current efficiency while monitoring energy costs"]
    ELSE [summary |-> "Data analysis temporarily unavailable",
          recommendation |-> "Monitor key metrics and adjust operations as needed"]

\* the rule-based insight was asked for: by analyzeInsight when the AI call
\* fails with nothing cached at all, or from generateFallbackInsight
RuleTableUsed ==
    \/ AiFailed /\ probe.lastOp.before = {}
    \/ probe.kind = "insight" /\ probe.lastOp.op = "fallback"

\* C15: the rule-based insight is the pair of the first condition that holds
\* in the order temperature >= 100, energy trend 'up', active weather alert,
\* production down, production up, generic.  (Whether the placeholder alert
\* of the weather fallback counts as an active alert is left open here.)
C15_RuleOrder ==
    RuleTableUsed =>
        LET data == probe.lastOp.data
            result == probe.lastOp.result
        IN IF data.weather.temp >= 100 THEN result = HeatPair
           ELSE IF data.energy.trend = "up" THEN result = EnergyPair
           ELSE IF data.weather.alert = "Weather data unavailable"
           THEN result \in {AlertPair, ProductionOrGenericPair(data)}
           ELSE IF data.weather.alert # "none" THEN result = AlertPair
           ELSE result = ProductionOrGenericPair(data)

\* the AI call failed with nothing cached, for a triple with 100 degrees, a
\* rising energy price and an active alert: the extreme-heat pair was chosen
C15_Witness ==
    /\ AiFailed
    /\ probe.lastOp.before = {}
    /\ probe.lastOp.called
    /\ probe.lastOp.data.weather.temp >= 100
    /\ probe.lastOp.data.energy.trend = "up"
    /\ probe.lastOp.data.weather.alert = "Extreme heat warning"
    /\ probe.lastOp.result = HeatPair

\* C16: whatever its input and whatever the API call did, analyzeInsight
\* returns an insight: a summary and a recommendation, and no error.
C16_NeverThrows ==
    (probe.kind = "insight" /\ probe.lastOp.op = "analyze") =>
        /\ probe.lastOp.result # NULL
        /\ DOMAIN probe.lastOp.result = {"summary", "recommendation"}

\* analyzeInsight has returned an insight for a valid triple after the API
\* was called and the call failed
C16_Witness ==
    /\ probe.kind = "insight"
    /\ probe.lastOp.op = "analyze"
    /\ probe.lastOp.called /\ ~probe.lastOp.ok
    /\ probe.lastOp.valid
    /\ DOMAIN probe.lastOp.result = {"summary", "recommendation"}

-----------------------------------------------------------------------------
(* Properties of the handler's caching of fallbacks and insights (checked *)
(* under Spec)                                                            *)

ServedInsight(entry) == entry.response.body.data.insight

\* C21: a request without the refresh flag whose metrics differ from those
\* of the previous request outside the rounding granularity calls the API
\* (its credential being present) and does not serve the insight generated
\* for the previous metrics.
C21_ChangeRegenerates ==
    \A i \in DOMAIN log : (i + 1) \in DOMAIN log =>
        LET a == log[i]
            b == log[i + 1]
        IN (/\ ~b.isManualRefresh
            /\ a.aiOk
            /\ "CLAUDE_API_KEY" \in env
            /\ Projection(a.response.body.data) # Projection(b.response.body.data))
           => /\ b.aiCalled
              /\ ServedInsight(b) # ServedInsight(a)

\* C23: no cache entry of the handler holds a source's fallback, and after a
\* request in which the upstream call of a source failed the next request
\* calls the upstream of that source again.
C23_FallbackNotCached ==
    /\ \A s \in Sources :
          MapHas(dataCache, s) => MapGet(dataCache, s).data # DocumentedFallback(s)
    /\ \A i \in DOMAIN log : (i + 1) \in DOMAIN log =>
          \A s \in Sources :
              UpstreamFailed(log[i], s) => CalledUpstream(log[i + 1], s)

\* the insights the API has generated so far
AiProduced == {AiInsight(n) : n \in 0..aiCalls}

\* C24: the insight caches hold only insights the API generated, and after a
\* request in which the API call failed the next request with the same
\* fingerprint calls the API again.
C24_OnlyAiInsightsCached ==
    /\ \A k \in DOMAIN insightCache : insightCache[k].v.insight \in AiProduced
    /\ \A k \in DOMAIN insightLib : insightLib[k].v.data \in AiProduced
    /\ \A i \in DOMAIN log :
          (/\ (i + 1) \in DOMAIN log
           /\ log[i].aiCalled /\ ~log[i].aiOk
           /\ log[i + 1].currentDataHash = log[i].currentDataHash)
          => log[i + 1].aiCalled

\* C25: the lastInsightRun of a response is the time the served insight was
\* generated by the API (in this request, or in the earlier request that
\* generated it), and null when the served insight did not come from the API.
C25_LastInsightRunTruthful ==
    \A i \in DOMAIN log :
        LET e == log[i]
            lastInsightRun == e.response.body.lastInsightRun
        IN IF e.aiOk
           THEN lastInsightRun # NULL /\ GetTime(lastInsightRun) >= e.lookupAt
           ELSE IF \E j \in 1..(i - 1) : log[j].aiOk /\ ServedInsight(log[j]) = ServedInsight(e)
           THEN \E j \in 1..(i - 1) :
                   /\ log[j].aiOk
                   /\ ServedInsight(log[j]) = ServedInsight(e)
                   /\ lastInsightRun = log[j].response.body.lastInsightRun
           ELSE lastInsightRun = NULL

-----------------------------------------------------------------------------
(* The expired entry of the fingerprint (checked under SpecInsight) *)

\* C22: when the AI call fails and the cache holds an expired insight for
\* exactly the current fingerprint, analyzeInsight returns that stale insight,
\* not an insight of another fingerprint and not a rule-based pair.
C22_StaleInsightServed ==
    (AiFailed /\ probe.lastOp.stale # NULL) =>
        probe.lastOp.result = probe.lastOp.stale

-----------------------------------------------------------------------------
(* Overwriting an entry (checked under SpecCache) *)

\* the last operation was a set on a key that had an entry
CacheOverwrote ==
    /\ probe.kind = "cache"
    /\ probe.lastOp.op = "set"
    /\ probe.lastOp.had # NULL

\* the value an entry of the cache under test carries
EntryValue(cut, item) == IF cut = "insightCache" THEN item.insight ELSE item.data

\* the ttl the cache under test gives an entry set with ttl
EffectiveTtl(cut, ttl) ==
    CASE cut = "InsightCache" -> INSIGHT_CACHE_TTL
      [] cut = "insightCache" -> INSIGHT_TTL
      [] OTHER -> ttl

\* C30: a set on a key that already has an entry replaces the value and the
\* expiry: the map keeps one entry for the key, it carries the new value and
\* expires at the time of this set plus its ttl, whatever the expiry of the
\* entry it replaced, and a get up to that time returns the new value while a
\* get after it reports absent.
C30_SetOverwrites ==
    CacheOverwrote =>
        LET key == probe.lastOp.key
            m == CacheMap(probe.cut)
            item == MapGet(m, key)
            expires == probe.lastOp.at
                          + EffectiveTtl(probe.cut, probe.stored[key].ttl)
        IN /\ Cardinality({i \in DOMAIN m : m[i].k = key}) = 1
           /\ EntryValue(probe.cut, item) = probe.lastOp.value
           /\ item.expires = expires
           /\ CacheGetValue(probe.cut, key) =
                 IF now <= expires THEN probe.lastOp.value ELSE NULL

\* a set with another value and a shorter ttl on a key whose entry was due to
\* expire later than the new one
C30_Witness ==
    /\ CacheOverwrote
    /\ EntryValue(probe.cut, probe.lastOp.had) # probe.lastOp.value
    /\ probe.lastOp.had.expires
          > probe.lastOp.at + probe.stored[probe.lastOp.key].ttl
    /\ MapGet(CacheMap(probe.cut), probe.lastOp.key).expires
          < probe.lastOp.had.expires

-----------------------------------------------------------------------------
(* The age of a served insight (checked under SpecLong) *)

\* C26: whatever requests were made, with or without the refresh flag, an
\* insight the API produced at time t is not served again by a request that
\* looks the insight up later than t + 30 minutes: that request calls the
\* API and serves something else.
C26_InsightTtlBound ==
    \A j \in DOMAIN log : \A i \in DOMAIN log :
        (/\ j < i
         /\ log[j].aiOk
         /\ log[i].lookupAt
               > GetTime(log[j].response.body.lastInsightRun) + INSIGHT_TTL) =>
            /\ log[i].aiCalled
            /\ ServedInsight(log[i]) # ServedInsight(log[j])

-----------------------------------------------------------------------------
(* Two requests in flight (checked under SpecConc) *)

\* the data cache holds an entry for the source that has not expired and is
\* not the fallback of the source
HoldsLive(cache, source) ==
    /\ MapHas(cache, source)
    /\ now <= MapGet(cache, source).expires
    /\ MapGet(cache, source).data # DocumentedFallback(source)

\* C27: however two requests interleave at their awaits, a live value that one
\* of them stored for a source is not replaced by the fallback of the source
\* while it is fresh, whatever the upstream call of the other request did.
C27_LiveNotOverwritten ==
    [][\A s \in Sources :
          (HoldsLive(dataCache, s) /\ MapHas(dataCache', s)) =>
              MapGet(dataCache', s).data # DocumentedFallback(s)]_vars

\* C28: of the requests without the refresh flag that have one fingerprint
\* and look the insight up within one 30-minute window, overlapping or not,
\* at most one calls the text-generation API.
C28_OneAiCallPerWindow ==
    \A i \in DOMAIN log : \A j \in DOMAIN log :
        (/\ i < j
         /\ ~log[i].isManualRefresh /\ ~log[j].isManualRefresh
         /\ log[i].currentDataHash = log[j].currentDataHash
         /\ Abs(log[j].lookupAt - log[i].lookupAt) <= INSIGHT_TTL) =>
            ~(log[i].aiCalled /\ log[j].aiCalled)

\* the lastFetched a response carries, as a time
LastFetchedOf(entry) == GetTime(entry.response.body.lastFetched)

\* the three per-source timestamps the request gathered
GatheredTimestamps(entry) ==
    {GetTime(entry.settled[s].lastFetched) : s \in Sources}

\* C29 as stated: lastFetched is the maximum of the three per-source
\* timestamps of the request, and it never decreases from one response to the
\* next.
C29_AsStated ==
    /\ \A i \in DOMAIN log : LastFetchedOf(log[i]) = SetMax(GatheredTimestamps(log[i]))
    /\ \A i \in DOMAIN log :
          (i + 1) \in DOMAIN log => LastFetchedOf(log[i]) <= LastFetchedOf(log[i + 1])

\* C29, amended: lastFetched is the maximum of the three per-source
\* timestamps of the request, the timestamp of a value taken from the data
\* cache being no later than the arrival of the request; and it does not
\* decrease from one response to the next when the later request arrived
\* after the earlier response was sent.
C29_LastFetchedMax ==
    /\ \A i \in DOMAIN log :
          /\ LastFetchedOf(log[i]) = SetMax(GatheredTimestamps(log[i]))
          /\ \A s \in Sources :
                log[i].via[s] = "dataCache" =>
                    GetTime(log[i].settled[s].lastFetched) <= log[i].startedAt
    /\ \A i \in DOMAIN log :
          ((i + 1) \in DOMAIN log /\ log[i + 1].respondedBefore >= i) =>
              LastFetchedOf(log[i]) <= LastFetchedOf(log[i + 1])

\* a request that arrived after the previous response, took at least one
\* value from the data cache with a timestamp older than its arrival, fetched
\* another one anew, and answered with the newer of the timestamps
C29_Witness ==
    /\ Len(log) = 2
    /\ log[2].respondedBefore = 1
    /\ \E s \in Sources :
          /\ log[2].via[s] = "dataCache"
          /\ GetTime(log[2].settled[s].lastFetched) < log[2].startedAt
    /\ \E s \in Sources : log[2].via[s] = "fetched"
    /\ LastFetchedOf(log[2]) > LastFetchedOf(log[1])
    /\ LastFetchedOf(log[2]) >= log[2].startedAt

-----------------------------------------------------------------------------
(* The fetchers on their own (SpecFetch): one fetcher is called, with the  *)
(* clock moving in between, while its upstream answers with one body.      *)
(* probe holds the fetcher, the body, and what the last call returned.     *)

\* the bodies an upstream answers with: up to three dated entries in any
\* order for FRED (index in hundredths, or the missing marker) and for EIA
\* (price in thousandths of a cent, or null); a temperature in tenths of a
\* degree, a condition list and an alert list for the weather
FetchReplies(source) ==
    LET dates == {1, 2, 3}
        undated(values) == UNION {[1..n -> [date : dates, value : values]] : n \in 0..3}
        dated(values) ==
            {s \in undated(values) :
                \A i \in DOMAIN s : \A j \in DOMAIN s : i # j => s[i].date # s[j].date}
        storm == <<[id |-> 211, main |-> "Thunderstorm", description |-> "thunderstorm"]>>
        warning == [event |-> "Dust storm warning", description |-> "Blowing dust"]
        untitled == [event |-> "", description |-> "Blowing dust"]
        blank == [event |-> "", description |-> ""]
    IN CASE source = "fred" ->
                {FredBody(s) :
                    s \in dated({Num(10000), Num(10001), Num(10260), NotNum("dot")})}
         [] source = "eia" ->
                {EiaBody([i \in DOMAIN s |-> Point(s[i].date, s[i].value)]) :
                    s \in dated({Num(10000), Num(10200), Num(10201), Num(9800),
                                 Num(9799), NotNum("null")})}
         [] source = "weather" ->
                {WeatherBody(temp, conditions, alerts) :
                    temp \in {Num(-50), Num(0), Num(4), Num(320), Num(325), Num(750),
                              Num(995), Num(1041), NotNum("none")},
                    conditions \in {<<>>, ClearSky, storm},
                    alerts \in {<<>>, <<warning>>, <<untitled, warning>>, <<blank>>}}

NoFetch == [op |-> "none", hit |-> FALSE, live |-> FALSE, result |-> NULL]

FetchInit ==
    /\ now = 1
    /\ ticks = 0
    /\ env = Credentials
    /\ sourceCache = [s \in Sources |-> EmptyMap]
    /\ insightLib = EmptyMap
    /\ dataCache = EmptyMap
    /\ insightCache = EmptyMap
    /\ pc = [r \in Slots |-> "idle"]
    /\ req = [r \in Slots |-> IdleReq]
    /\ started = 0
    /\ aiCalls = 0
    /\ log = <<>>
    /\ \E source \in Sources : \E reply \in FetchReplies(source) :
          probe = [kind |-> "fetch", source |-> source, reply |-> reply, ops |-> 0,
                   lastOp |-> NoFetch]

\* getProductionIndex(), getEnergyPrice() or getLocalWeather(): the cache
\* check, then the call and the code after its await
FetcherCall ==
    /\ probe.ops < MaxCacheOps
    /\ ApiKeyOf(probe.source) \in env
    /\ LET source == probe.source
           lib == sourceCache[source]
           cachedData == SimpleCacheGet(lib, CACHE_KEY(source), now)
           lib1 == SimpleCacheAfterGet(lib, CACHE_KEY(source), now)
           out == AfterFetch(source, probe.reply)
       IN /\ sourceCache' =
                [sourceCache EXCEPT ![source] =
                    IF cachedData = NULL /\ out.live
                    THEN SimpleCacheSet(lib1, CACHE_KEY(source), out.data,
                                        CACHE_TTL(source), now)
                    ELSE lib1]
          /\ probe' = [probe EXCEPT
                !.ops = @ + 1,
                !.lastOp = [op |-> "fetch", hit |-> cachedData # NULL,
                            live |-> cachedData # NULL \/ out.live,
                            result |-> IF cachedData # NULL THEN cachedData
                                       ELSE out.data]]
    /\ UNCHANGED <<now, ticks, env, insightLib, dataCache, insightCache,
                   pc, req, started, aiCalls, log>>

FetchNext ==
    \/ FetcherCall
    \/ \E d \in {1, EIA_CACHE_TTL, FRED_CACHE_TTL} : CacheTick(d)

SpecFetch == FetchInit /\ [][FetchNext]_vars

-----------------------------------------------------------------------------
(* Properties of the fetchers (checked under SpecFetch) *)

\* the last call was made to the fetcher of the source
Fetched(source) ==
    /\ probe.kind = "fetch"
    /\ probe.source = source
    /\ probe.lastOp.op = "fetch"

\* of the entries of a body listed in S, the one with the latest date
Newest(entries, S) == CHOOSE i \in S : \A j \in S : entries[j].date <= entries[i].date

\* the entries of the EIA body, dated, and those of them that carry a number
EiaEntries == [i \in DOMAIN probe.reply.series[1].data |->
                  Obs(probe.reply.series[1].data[i].period,
                      probe.reply.series[1].data[i].value)]

Numeric(entries) == {i \in DOMAIN entries : entries[i].value.kind = "num"}

\* C31: the energy trend is 'up' exactly when the change from the previous
\* to the latest monthly price exceeds 2%, 'down' exactly when it is below
\* -2%, and 'stable' otherwise: at exactly +2% and -2%, and when there are
\* fewer than two valid points.
C31_EnergyTrend ==
    (Fetched("eia") /\ probe.lastOp.live) =>
        LET S == Numeric(EiaEntries)
            l == Newest(EiaEntries, S)
            latest == EiaEntries[l].value.n
        IN IF Cardinality(S) >= 2
           THEN LET previous == EiaEntries[Newest(EiaEntries, S \ {l})].value.n
                    change100 == (latest - previous) * 100   \* percent * previous
                IN /\ probe.lastOp.result.trend = "up" <=> change100 > 2 * previous
                   /\ probe.lastOp.result.trend = "down" <=> change100 < (-2) * previous
                   /\ probe.lastOp.result.trend \in {"up", "down", "stable"}
           ELSE probe.lastOp.result.trend = "stable"

\* a change of exactly +2% between two prices that the body lists oldest
\* first, reported as 'stable'
C31_Witness ==
    /\ Fetched("eia") /\ probe.lastOp.live
    /\ Len(EiaEntries) >= 2
    /\ EiaEntries[1].date < EiaEntries[2].date
    /\ LET S == Numeric(EiaEntries)
           l == Newest(EiaEntries, S)
       IN /\ Cardinality(S) >= 2
          /\ (EiaEntries[l].value.n - EiaEntries[Newest(EiaEntries, S \ {l})].value.n) * 100
                = 2 * EiaEntries[Newest(EiaEntries, S \ {l})].value.n
    /\ probe.lastOp.result.trend = "stable"

\* the observations of the FRED body that do not carry the missing marker
Present(entries) == {i \in DOMAIN entries : entries[i].value.kind # "dot"}

\* C32: the production trend is computed from the two most recent
\* observations that do not carry the missing marker: up-arrow when the
\* latest is greater than the previous, down-arrow when it is smaller,
\* right-arrow when they are equal; with fewer than two such observations the
\* label is the 'no data' label, and the index is the latest value (to one
\* decimal) in either case.
C32_ProductionTrend ==
    (Fetched("fred") /\ probe.lastOp.live) =>
        LET entries == probe.reply.observations
            S == Present(entries)
            l == Newest(entries, S)
            latest == entries[l].value.n
            trend == probe.lastOp.result.trend
        IN /\ probe.lastOp.result.index = MathRound(latest, 10) * 10
           /\ IF Cardinality(S) >= 2
              THEN LET previous == entries[Newest(entries, S \ {l})].value.n IN
                   /\ trend.label = "% MoM"
                   /\ trend.sign = "↑" <=> latest > previous
                   /\ trend.sign = "↓" <=> latest < previous
                   /\ trend.sign = "→" <=> latest = previous
              ELSE trend = TrendText("→", "No data")

\* three observations listed oldest first, the newest with the missing
\* marker, the two others a hundredth apart: an up-arrow with 0.0%
C32_Witness ==
    /\ Fetched("fred") /\ probe.lastOp.live
    /\ LET entries == probe.reply.observations IN
       /\ Len(entries) = 3
       /\ entries[1].date < entries[2].date /\ entries[2].date < entries[3].date
       /\ entries[3].value.kind = "dot"
       /\ entries[1].value = Num(10000) /\ entries[2].value = Num(10001)
    /\ probe.lastOp.result.trend = TrendPct("↑", 0)
    /\ probe.lastOp.result.index = 10000

\* the alert the precedence of C33 gives a weather body at a temperature
ExpectedAlert(reply, temperature) ==
    IF Len(reply.alerts) > 0
    THEN IF reply.alerts[1].event # "" THEN reply.alerts[1].event
         ELSE IF reply.alerts[1].description # "" THEN reply.alerts[1].description
         ELSE "Weather alert active"
    ELSE IF temperature >= 100 THEN "Extreme heat warning"
    ELSE IF temperature <= 32 THEN "Freezing temperature alert"
    ELSE IF Len(reply.weather) > 0 /\ reply.weather[1].id \in severeWeatherIds
    THEN reply.weather[1].main \o ": " \o reply.weather[1].description
    ELSE "none"

\* C33: the weather alert follows a fixed precedence: the first upstream
\* alert when the body has one; otherwise the temperature alert (extreme heat
\* at 100 or more, freezing at 32 or less); otherwise the alert of a severe
\* condition code; otherwise 'none'.
C33_AlertPrecedence ==
    (Fetched("weather") /\ probe.lastOp.live) =>
        probe.lastOp.result.alert = ExpectedAlert(probe.reply, probe.lastOp.result.temp)

\* C34: every weather body with a temperature of 100 or more, or of 32 or
\* less, yields an alert other than 'none', with or without a condition list.
C34_TemperatureAlert ==
    (/\ Fetched("weather") /\ probe.lastOp.live
     /\ probe.lastOp.result.temp >= 100 \/ probe.lastOp.result.temp <= 32) =>
        probe.lastOp.result.alert # "none"

\* C35: a weather body with a numeric temperature, 0 included, yields that
\* temperature rounded to an integer, and the value is cached; only a body
\* without a numeric temperature yields the 75-degree fallback.
C35_ZeroIsATemperature ==
    Fetched("weather") =>
        IF probe.reply.temp.kind = "num"
        THEN /\ probe.lastOp.live
             /\ probe.lastOp.result.temp = MathRound(probe.reply.temp.n, 10)
             /\ MapHas(sourceCache["weather"], CACHE_KEY("weather"))
        ELSE probe.lastOp.result = WeatherFallback

-----------------------------------------------------------------------------
(* Requests served from the caches (checked under Spec) *)

\* the request has no refresh flag and took all three metrics from fresh
\* entries of the data cache
AllFromCache(rq) ==
    /\ ~rq.isManualRefresh
    /\ \A s \in Sources : rq.via[s] = "dataCache"

\* C36: a request without the refresh flag that is served from fresh cache
\* entries only (the three metrics and the insight of the fingerprint) leaves
\* all four caches as they were, at its arrival and at its response: no entry
\* added, removed or changed.
C36_CacheHitFrame ==
    [][\A r \in Slots :
          (\/ /\ pc[r] = "idle" /\ pc'[r] = "fetching"
              /\ AllFromCache(req'[r])
           \/ /\ pc[r] = "fetching" /\ pc'[r] = "idle"
              /\ AllFromCache(req[r])
              /\ Len(log') = Len(log) + 1
              /\ ~log'[Len(log')].analyzed) =>
              <<sourceCache, insightLib, dataCache, insightCache>>'
                  = <<sourceCache, insightLib, dataCache, insightCache>>]_vars

\* a request made after some time that took everything from the caches,
\* which still hold what the request before it stored
C36_Witness ==
    /\ Len(log) = 2
    /\ AllFromCache(log[2])
    /\ log[2].cachedInsight # NULL /\ ~log[2].analyzed
    /\ log[2].startedAt > log[1].startedAt
    /\ \A s \in Sources :
          /\ MapHas(dataCache, s)
          /\ MapGet(dataCache, s).lastFetched = log[1].settled[s].lastFetched
    /\ MapGet(insightCache, log[2].currentDataHash).lastInsightRun
          = log[1].response.body.lastInsightRun

\* C37: when the weather metric served is the static fallback and the AI
\* call fails with no insight cached, the insight the handler serves is not
\* the 'Weather alert active' pair.
C37_UnavailableIsNoAlert ==
    \A i \in DOMAIN log :
        (/\ Metric(log[i], "weather") = DocumentedFallback("weather")
         /\ log[i].cachedInsight = NULL
         /\ log[i].aiCalled /\ ~log[i].aiOk
         /\ ServedInsight(log[i]) \in FixedInsights) =>
            ServedInsight(log[i]).summary # "Weather alert active"

=============================================================================
